---- MODULE Spec2Model ----
(***************************************************************************)
(* Lifecycle of the dynamically started sub-controller for one third-party *)
(* kind (internal/controller/third_party_crd_common.go): the CRD presence  *)
(* check at setup, maybeStartWatchingThirdPartyResources,                  *)
(* stopWatchingThirdPartyResources, the goroutine running the              *)
(* sub-controller, and the HTTP retry loop of a synchronization attempt.   *)
(***************************************************************************)
EXTENDS Integers, Sequences, FiniteSets, TLC

\* ------------------------------------------------------------------ bounds
\* Number of sub-controllers that can be created over one run of the model.
MaxControllers == 2
\* Number of CRD events that can be pending for the CRD event handler.
MaxCrdEvents == 1

\* Number of items (dashboards, rules, ...) one third-party resource holds.
MaxItems == 2

\* ------------------------------------------------------- program constants
\* wait.Backoff{Steps: 3, ...} of executeSingleHttpRequestWithRetry.
HttpRetrySteps == 3

\* wait.Backoff{Steps: 3, ...} of writeSynchronizationResult.
StatusWriteSteps == 3

\* util.DatasetDefault
DatasetDefault == "default"

\* A nil *context.CancelFunc: no sub-controller identity.
Nil == 0

\* A nil *ApiConfig.
NilApiConfig == [isNil |-> TRUE]

\* The tasks calling into the lifecycle: the setup call at operator startup,
\* the CRD event handler, and the operator configuration reconciler.
Threads == {"setup", "crd", "cfg"}

ControllerIds == 1..MaxControllers

\* The ApiConfig values the operator configuration can hold.
ApiConfigs ==
    { [Endpoint |-> "", Dataset |-> ""],
      [Endpoint |-> "https://api", Dataset |-> "ds"] }

\* The outcomes of one HTTP attempt: a transport error or a status class.
HttpOutcomes == {"transport", "2xx", "4xx", "5xx"}

VARIABLES
    authToken,               \* crdReconciler.GetAuthToken()
    crdInCluster,            \* whether the CRD is installed in the cluster
    crdEvents,               \* CRD events not yet handed to the CRD reconciler
    subscribed,              \* the CRD watch has been registered with the manager
    reconcilerCreated,       \* CreateResourceReconciler has run
    setupResult,             \* return value of SetupThirdPartyCrdReconcilerWithManager
    crdFound,                \* result of the one-time CRD lookup of the setup
    crdExists,               \* DoesCrdExist(), an atomic.Bool
    apiConfig,               \* GetApiConfig(), an atomic.Pointer[ApiConfig]
    lock,                    \* ControllerStopFunctionLock(), holder or "none"
    controllerStopFunction,  \* Get/SetControllerStopFunction: Nil or a controller
    setUnderLock,            \* the latest SetControllerStopFunction call was
                             \* made by the holder of the lock
    ctrl,                    \* state of each sub-controller's goroutine
    informer,                \* the sub-controllers whose event handler is on
                             \* the informer the cache holds for the kind
    pc,                      \* position of each task
    local,                   \* local variables of the call each task runs
    logged,                  \* messages logged by the call each task runs
    sync,                    \* the HTTP request in flight and its retry sequence
    engine,                  \* the synchronizeViaApi call in progress
    statusWrite,             \* the monitoring resource and the
                             \* writeSynchronizationResult calls writing to it
    crdFilter,               \* the event the predicate of the CRD watch has
                             \* been asked about, and its answer
    httpCall,                \* the response executeSingleHttpRequest has got,
                             \* and what it has returned
    admission,               \* the admission request the webhook has got, and
                             \* its response
    offsetSync               \* the filelog offset synchronizer: the offset
                             \* directory, currentValue, the config map

vars ==
    << authToken, crdInCluster, crdEvents, subscribed, reconcilerCreated,
       setupResult, crdFound, crdExists, apiConfig, lock,
       controllerStopFunction, setUnderLock, ctrl, informer, pc, local, logged,
       sync, engine, statusWrite, crdFilter,
                    httpCall, admission, offsetSync >>

\* ----------------------------------------------------------------- helpers

\* A validity check that leaves out the endpoint.
isValidApiConfigNonNil(cfg) == cfg # NilApiConfig

\* isValidApiConfig
isValidApiConfig(cfg) == cfg # NilApiConfig /\ cfg.Endpoint # ""

\* IsWatching(): the lifecycle has no separate flag and no setter for one,
\* it is watching when a cancel function is stored.
IsWatching == controllerStopFunction # Nil

\* A sub-controller whose goroutine has been started and has not returned.
Active(c) == ctrl[c] \in {"running", "cancelled"}

ActiveControllers == { c \in ControllerIds : Active(c) }

CreatedControllers == { c \in ControllerIds : ctrl[c] # "none" }

\* The identity the next sub-controller gets.
NextId == Cardinality(CreatedControllers) + 1

InStart(t) ==
    pc[t] \in { "start_lock", "start_crd", "start_cfg", "start_create",
                "start_unlock" }

\* Bound of the model: a call that may create a sub-controller is begun only
\* while an identity is left for it.
SpareController ==
    Cardinality(CreatedControllers)
        + Cardinality({ t \in Threads : InStart(t) }) < MaxControllers

\* The local variables of a call of maybeStartWatchingThirdPartyResources or
\* stopWatchingThirdPartyResources: isStartup, apiConfig, cancelFunc, the
\* sub-controller the call has started, and the return the call has taken.
NoLocals == [isStartup |-> FALSE, apiConfig |-> NilApiConfig,
             cancelFunc |-> Nil, started |-> Nil, exit |-> "none"]

NoSync == [owner |-> Nil, state |-> "idle", attempts |-> 0, last |-> "none"]

\* The synchronization attempts that write their results to the status of
\* one monitoring resource: two instances, or kinds, of one namespace.
Writers == {"a", "b"}

\* A writeSynchronizationResult call that has not begun: its position, the
\* number of attempts made, the monitoringResource object it holds, whether
\* an update of it has met a conflict, and how it has ended.
NoWriter ==
    [ pc |-> "idle", attempts |-> 0,
      object |-> [resourceVersion |-> 0, results |-> {}],
      conflicted |-> FALSE, outcome |-> "none" ]

\* The monitoring resource as the API server holds it, with the instances
\* whose results are in its status, and no call in progress.
NoStatusWrite ==
    [ resource |-> [resourceVersion |-> 0, results |-> {}],
      writer |-> [w \in Writers |-> NoWriter] ]

\* No event has been put to the predicate of the CRD watch.
NoCrdFilter == [asked |-> FALSE]

\* executeSingleHttpRequest has not been called.
NoHttpCall == [called |-> FALSE]

\* The webhook has not got an admission request.
NoAdmission == [handled |-> FALSE]

\* The filelog offset synchronizer is not running.
NoOffsetSync == [running |-> FALSE]

\* The item names of one third-party resource.
Items == 1..MaxItems

\* The result of validatePreconditions before it has run.
NoPreconditions == [synchronizeResource |-> FALSE, failed |-> "none"]

\* No synchronizeViaApi call in progress. The fields are the local variables
\* of the call: the inputs validatePreconditions has read, its result, the
\* four results of MapResourceToHttpRequests, the requests not yet executed
\* and the one in flight, the two results of executeAllHttpRequests, the
\* number of attempts per executed request, the messages logged, and the
\* progress of writeSynchronizationResult; requestTarget is the endpoint and
\* the dataset the requests are made for.
NoEngine ==
    [ state |-> "idle", owner |-> Nil,
      monitoring |-> "none", enabled |-> FALSE, authToken |-> "",
      apiConfig |-> NilApiConfig,
      pre |-> NoPreconditions,
      itemsTotal |-> 0, httpRequests |-> << >>,
      requestTarget |-> [apiEndpoint |-> "", dataset |-> ""],
      pending |-> << >>, current |-> Nil,
      validationIssues |-> {}, synchronizationErrors |-> {},
      successfullySynchronized |-> << >>, httpErrors |-> {},
      tries |-> {}, logged |-> {},
      result |-> "none", writeAttempts |-> 0, written |-> FALSE ]

\* A call whose failure ends the task that made it.
AfterCallAborting(t) == "done"

\* Where a task continues when its maybeStart or stop call returns.
AfterCall(t) == IF t = "setup" THEN "setup_register" ELSE "idle"

\* Whether the writer w of the cancel function holds the lifecycle lock.
HoldsLock(w) == w \in Threads /\ lock = w

\* A lock that excludes no one.
CanLockAlways(t) == TRUE

\* sync.Mutex.Lock() returns once no one holds the mutex.
CanLock(t) == lock = "none"

\* --------------------------------------------------------------------- Init

Init ==
    /\ authToken \in {"", "token"}
    /\ crdInCluster \in BOOLEAN
    /\ crdEvents = << >>
    /\ subscribed = FALSE
    /\ reconcilerCreated = FALSE
    /\ setupResult = "pending"
    /\ crdFound = "unknown"
    /\ crdExists = FALSE
    /\ apiConfig = NilApiConfig
    /\ lock = "none"
    /\ controllerStopFunction = Nil
    /\ setUnderLock = TRUE
    /\ ctrl = [c \in ControllerIds |-> "none"]
    /\ informer = {}
    /\ pc = [t \in Threads |-> IF t = "setup" THEN "setup_start" ELSE "idle"]
    /\ local = [t \in Threads |-> NoLocals]
    /\ logged = [t \in Threads |-> {}]
    /\ sync = NoSync
    /\ engine = NoEngine
    /\ statusWrite = NoStatusWrite
    /\ crdFilter = NoCrdFilter
    /\ httpCall = NoHttpCall
    /\ admission = NoAdmission
    /\ offsetSync = NoOffsetSync

\* ------------------------------------------ SetupThirdPartyCrdReconcilerWithManager

\* A setup that returns when the CRD is not found.
NextAfterCrdLookupReturning(res) ==
    CASE res = "error"    -> "done"
      [] res = "found"    -> "start_lock"
      [] res = "notfound" -> "done"

\* Where the setup continues after the one-time CRD lookup: an error other
\* than NotFound is returned, a found CRD sets the flag and calls maybeStart,
\* and NotFound falls through to the registration of the CRD watch.
NextAfterCrdLookup(res) ==
    CASE res = "error"    -> "done"
      [] res = "found"    -> "start_lock"
      [] res = "notfound" -> "setup_register"

\* A setup that goes on without an auth token.
SetupStartWithoutTokenCheck ==
    /\ pc["setup"] = "setup_start"
    /\ \E getOk \in BOOLEAN :
         IF getOk
           THEN /\ reconcilerCreated' = TRUE
                /\ pc' = [pc EXCEPT !["setup"] = "setup_getcrd"]
                /\ UNCHANGED << logged, setupResult >>
           ELSE /\ logged' = [logged EXCEPT !["setup"] = {"no_kube_system"}]
                /\ setupResult' = "error"
                /\ pc' = [pc EXCEPT !["setup"] = "done"]
                /\ UNCHANGED reconcilerCreated
    /\ UNCHANGED << authToken, crdInCluster, crdEvents, subscribed, crdFound,
                    crdExists, apiConfig, lock, controllerStopFunction, setUnderLock,
                    ctrl, informer, local, sync, engine,
                    statusWrite, crdFilter,
                    httpCall, admission, offsetSync >>

\* The auth token check, the kube-system lookup and CreateResourceReconciler.
SetupStart ==
    /\ pc["setup"] = "setup_start"
    /\ IF authToken = ""
         THEN /\ logged' = [logged EXCEPT !["setup"] = {"no_auth_token"}]
              /\ setupResult' = "nil"
              /\ pc' = [pc EXCEPT !["setup"] = "done"]
              /\ UNCHANGED reconcilerCreated
         ELSE \E getOk \in BOOLEAN :
                IF getOk
                  THEN /\ reconcilerCreated' = TRUE
                       /\ pc' = [pc EXCEPT !["setup"] = "setup_getcrd"]
                       /\ UNCHANGED << logged, setupResult >>
                  ELSE /\ logged' = [logged EXCEPT !["setup"] = {"no_kube_system"}]
                       /\ setupResult' = "error"
                       /\ pc' = [pc EXCEPT !["setup"] = "done"]
                       /\ UNCHANGED reconcilerCreated
    /\ UNCHANGED << authToken, crdInCluster, crdEvents, subscribed, crdFound,
                    crdExists, apiConfig, lock, controllerStopFunction, setUnderLock,
                    ctrl, informer, local, sync, engine,
                    statusWrite, crdFilter,
                    httpCall, admission, offsetSync >>

\* The one-time lookup of the CRD.
SetupGetCrd ==
    /\ pc["setup"] = "setup_getcrd"
    /\ \E res \in {IF crdInCluster THEN "found" ELSE "notfound", "error"} :
         /\ crdFound' = res
         /\ pc' = [pc EXCEPT !["setup"] = NextAfterCrdLookup(res)]
         /\ crdExists' = IF res = "found" THEN TRUE ELSE crdExists
         /\ local' = [local EXCEPT !["setup"] =
                        [NoLocals EXCEPT !.isStartup = (res = "found")]]
         /\ logged' = [logged EXCEPT !["setup"] =
                         IF res = "error" THEN {"crd_lookup_failed"} ELSE {}]
         /\ setupResult' = IF NextAfterCrdLookup(res) = "done"
                             THEN (IF res = "error" THEN "error" ELSE "nil")
                             ELSE setupResult
    /\ UNCHANGED << authToken, crdInCluster, crdEvents, subscribed,
                    reconcilerCreated, apiConfig, lock, controllerStopFunction,
                    setUnderLock, ctrl, informer, sync, engine,
                    statusWrite, crdFilter,
                    httpCall, admission, offsetSync >>

\* A setup that returns nil when the controller cannot be built.
SetupRegisterIgnoringFailure ==
    /\ pc["setup"] = "setup_register"
    /\ \E completeOk \in BOOLEAN :
         IF completeOk
           THEN /\ subscribed' = TRUE
                /\ crdEvents' = IF crdInCluster THEN << "create" >> ELSE << >>
                /\ setupResult' = "nil"
                /\ UNCHANGED logged
           ELSE /\ setupResult' = "nil"
                /\ logged' = [logged EXCEPT !["setup"] = @ \cup {"build_failed"}]
                /\ UNCHANGED << subscribed, crdEvents >>
    /\ pc' = [pc EXCEPT !["setup"] = "done"]
    /\ UNCHANGED << authToken, crdInCluster, reconcilerCreated, crdFound,
                    crdExists, apiConfig, lock, controllerStopFunction, setUnderLock,
                    ctrl, informer, local, sync, engine,
                    statusWrite, crdFilter,
                    httpCall, admission, offsetSync >>

\* Building the controller that watches the CRD collection. Once it is
\* registered, the informer hands over a create event for a CRD that is
\* already installed.
SetupRegister ==
    /\ pc["setup"] = "setup_register"
    /\ \E completeOk \in BOOLEAN :
         IF completeOk
           THEN /\ subscribed' = TRUE
                /\ crdEvents' = IF crdInCluster THEN << "create" >> ELSE << >>
                /\ setupResult' = "nil"
                /\ UNCHANGED logged
           ELSE /\ setupResult' = "error"
                /\ logged' = [logged EXCEPT !["setup"] = @ \cup {"build_failed"}]
                /\ UNCHANGED << subscribed, crdEvents >>
    /\ pc' = [pc EXCEPT !["setup"] = "done"]
    /\ UNCHANGED << authToken, crdInCluster, reconcilerCreated, crdFound,
                    crdExists, apiConfig, lock, controllerStopFunction, setUnderLock,
                    ctrl, informer, local, sync, engine,
                    statusWrite, crdFilter,
                    httpCall, admission, offsetSync >>

\* ------------------------------------------------------------ the cluster

\* The CRD is installed in or removed from the cluster; a registered CRD
\* watch gets the event.
ClusterCrdChange ==
    /\ subscribed => Len(crdEvents) < MaxCrdEvents
    /\ crdInCluster' = ~crdInCluster
    /\ crdEvents' = IF subscribed
                      THEN Append(crdEvents,
                                  IF crdInCluster THEN "delete" ELSE "create")
                      ELSE crdEvents
    /\ UNCHANGED << authToken, subscribed, reconcilerCreated, setupResult,
                    crdFound, crdExists, apiConfig, lock,
                    controllerStopFunction, setUnderLock, ctrl, informer, pc, local,
                    logged, sync, engine,
                    statusWrite, crdFilter,
                    httpCall, admission, offsetSync >>

\* ------------------------------------------------- the CRD event handler

\* Create event of the matching CRD: mark it as existing, attempt to start
\* the resource watch.
CrdCreate ==
    /\ pc["crd"] = "idle"
    /\ crdEvents # << >> /\ Head(crdEvents) = "create"
    /\ SpareController
    /\ crdEvents' = Tail(crdEvents)
    /\ crdExists' = TRUE
    /\ local' = [local EXCEPT !["crd"] = NoLocals]
    /\ logged' = [logged EXCEPT !["crd"] = {}]
    /\ pc' = [pc EXCEPT !["crd"] = "start_lock"]
    /\ UNCHANGED << authToken, crdInCluster, subscribed, reconcilerCreated,
                    setupResult, crdFound, apiConfig, lock,
                    controllerStopFunction, setUnderLock, ctrl, informer, sync, engine,
                    statusWrite, crdFilter,
                    httpCall, admission, offsetSync >>

\* Delete event of the matching CRD: mark it as missing, stop the resource
\* watch.
CrdDelete ==
    /\ pc["crd"] = "idle"
    /\ crdEvents # << >> /\ Head(crdEvents) = "delete"
    /\ crdEvents' = Tail(crdEvents)
    /\ crdExists' = FALSE
    /\ local' = [local EXCEPT !["crd"] = NoLocals]
    /\ logged' = [logged EXCEPT !["crd"] = {}]
    /\ pc' = [pc EXCEPT !["crd"] = "stop_lock"]
    /\ UNCHANGED << authToken, crdInCluster, subscribed, reconcilerCreated,
                    setupResult, crdFound, apiConfig, lock,
                    controllerStopFunction, setUnderLock, ctrl, informer, sync, engine,
                    statusWrite, crdFilter,
                    httpCall, admission, offsetSync >>

\* ------------------------------------- operator configuration notifications

\* SetApiEndpointAndDataset: replace the ApiConfig, attempt to start the
\* resource watch.
SetApiEndpointAndDataset ==
    /\ pc["cfg"] = "idle"
    /\ reconcilerCreated
    /\ SpareController
    /\ \E cfg \in ApiConfigs : apiConfig' = cfg
    /\ local' = [local EXCEPT !["cfg"] = NoLocals]
    /\ logged' = [logged EXCEPT !["cfg"] = {}]
    /\ pc' = [pc EXCEPT !["cfg"] = "start_lock"]
    /\ UNCHANGED << authToken, crdInCluster, crdEvents, subscribed,
                    reconcilerCreated, setupResult, crdFound, crdExists, lock,
                    controllerStopFunction, setUnderLock, ctrl, informer, sync, engine,
                    statusWrite, crdFilter,
                    httpCall, admission, offsetSync >>

\* RemoveApiEndpointAndDataset: replace the ApiConfig by nil.
RemoveApiEndpointAndDataset ==
    /\ pc["cfg"] = "idle"
    /\ reconcilerCreated
    /\ apiConfig' = NilApiConfig
    /\ UNCHANGED << authToken, crdInCluster, crdEvents, subscribed,
                    reconcilerCreated, setupResult, crdFound, crdExists, lock,
                    controllerStopFunction, setUnderLock, ctrl, informer, pc, local,
                    logged, sync, engine,
                    statusWrite, crdFilter,
                    httpCall, admission, offsetSync >>

\* ----------------------------------- maybeStartWatchingThirdPartyResources

\* The guard left out.
StartGuardWatchingSkipped == FALSE

\* The guard taken whatever the lifecycle state is.
StartGuardWatchingAlways == TRUE

\* "if resourceReconciler.IsWatching() { return }"
StartGuardWatching == IsWatching

\* The guard with its negation dropped.
StartGuardCrdMissingNegated == crdExists

\* The guard left out.
StartGuardCrdMissingSkipped == FALSE

\* "if !crdReconciler.DoesCrdExist().Load() { ...; return }"
StartGuardCrdMissing == ~crdExists

\* The message logged whatever isStartup is.
LogsMissingApiConfigAlways(isStartup) == TRUE

\* A missing ApiConfig is logged unless the call is the one of the startup.
LogsMissingApiConfig(isStartup) == ~isStartup

\* ControllerStopFunctionLock().Lock() and the first guard: already
\* watching.
MaybeStartLock(t) ==
    /\ pc[t] = "start_lock"
    /\ CanLock(t)
    /\ lock' = t
    /\ IF StartGuardWatching
         THEN /\ local' = [local EXCEPT ![t].exit = "watching"]
              /\ pc' = [pc EXCEPT ![t] = "start_unlock"]
         ELSE /\ pc' = [pc EXCEPT ![t] = "start_crd"]
              /\ UNCHANGED local
    /\ UNCHANGED << authToken, crdInCluster, crdEvents, subscribed,
                    reconcilerCreated, setupResult, crdFound, crdExists,
                    apiConfig, controllerStopFunction, setUnderLock, ctrl,
                    informer, logged, sync, engine,
                    statusWrite, crdFilter,
                    httpCall, admission, offsetSync >>

\* The second guard: the CRD does not exist.
MaybeStartCheckCrd(t) ==
    /\ pc[t] = "start_crd"
    /\ IF StartGuardCrdMissing
         THEN /\ logged' = [logged EXCEPT ![t] = @ \cup {"crd_missing"}]
              /\ local' = [local EXCEPT ![t].exit = "crd_missing"]
              /\ pc' = [pc EXCEPT ![t] = "start_unlock"]
         ELSE /\ pc' = [pc EXCEPT ![t] = "start_cfg"]
              /\ UNCHANGED << logged, local >>
    /\ UNCHANGED << authToken, crdInCluster, crdEvents, subscribed,
                    reconcilerCreated, setupResult, crdFound, crdExists,
                    apiConfig, lock, controllerStopFunction, setUnderLock, ctrl,
                    informer, sync, engine,
                    statusWrite, crdFilter,
                    httpCall, admission, offsetSync >>

\* The third guard: the ApiConfig loaded from the store is not valid.
MaybeStartCheckCfg(t) ==
    /\ pc[t] = "start_cfg"
    /\ local' = [local EXCEPT ![t].apiConfig = apiConfig,
                              ![t].exit = IF ~isValidApiConfig(apiConfig)
                                            THEN "api_config" ELSE @]
    /\ IF ~isValidApiConfig(apiConfig)
         THEN /\ logged' = [logged EXCEPT ![t] =
                   IF LogsMissingApiConfig(local[t].isStartup)
                     THEN @ \cup {"no_api_endpoint"} ELSE @]
              /\ pc' = [pc EXCEPT ![t] = "start_unlock"]
         ELSE /\ logged' = [logged EXCEPT ![t] = @ \cup {"will_watch"}]
              /\ pc' = [pc EXCEPT ![t] = "start_create"]
    /\ UNCHANGED << authToken, crdInCluster, crdEvents, subscribed,
                    reconcilerCreated, setupResult, crdFound, crdExists,
                    apiConfig, lock, controllerStopFunction, setUnderLock, ctrl,
                    informer, sync, engine,
                    statusWrite, crdFilter,
                    httpCall, admission, offsetSync >>

\* controller.NewTypedUnmanaged and resourceController.Watch, either of which
\* can fail, then SetControllerStopFunction(&stopResourceController) and the
\* go statement.
MaybeStartCreate(t) ==
    /\ pc[t] = "start_create"
    /\ NextId \in ControllerIds
    /\ \E res \in {"ok", "create_failed", "watch_failed"} :
         /\ logged' = [logged EXCEPT ![t] = @ \cup {res}]
         /\ IF res = "ok"
              THEN /\ controllerStopFunction' = NextId
                   /\ setUnderLock' = HoldsLock(t)
                   /\ ctrl' = [ctrl EXCEPT ![NextId] = "running"]
                   /\ informer' = informer \cup {NextId}
                   /\ local' = [local EXCEPT ![t].started = NextId,
                                             ![t].exit = "started"]
              ELSE /\ local' = [local EXCEPT ![t].exit = res]
                   /\ UNCHANGED << controllerStopFunction, setUnderLock,
                                   ctrl, informer >>
    /\ pc' = [pc EXCEPT ![t] = "start_unlock"]
    /\ UNCHANGED << authToken, crdInCluster, crdEvents, subscribed,
                    reconcilerCreated, setupResult, crdFound, crdExists,
                    apiConfig, lock, sync, engine,
                    statusWrite, crdFilter,
                    httpCall, admission, offsetSync >>

\* The deferred Unlock() and the return of
\* maybeStartWatchingThirdPartyResources.
MaybeStartUnlock(t) ==
    /\ pc[t] = "start_unlock"
    /\ lock' = "none"
    /\ pc' = [pc EXCEPT ![t] = AfterCall(t)]
    /\ local' = [local EXCEPT ![t] = NoLocals]
    /\ logged' = [logged EXCEPT ![t] = IF t = "setup" THEN @ ELSE {}]
    /\ UNCHANGED << authToken, crdInCluster, crdEvents, subscribed,
                    reconcilerCreated, setupResult, crdFound, crdExists,
                    apiConfig, controllerStopFunction, setUnderLock, ctrl,
                    informer, sync, engine,
                    statusWrite, crdFilter,
                    httpCall, admission, offsetSync >>

\* ------------------------------------------- the sub-controller's goroutine

\* A goroutine that returns without clearing the cancel function.
RunLoopExitKeepingHandle(c) ==
    /\ Active(c)
    /\ \E failed \in BOOLEAN :
         /\ ctrl[c] = "running" => failed
         /\ ctrl' = [ctrl EXCEPT ![c] = IF failed THEN "failed" ELSE "stopped"]
    /\ UNCHANGED << authToken, crdInCluster, crdEvents, subscribed,
                    reconcilerCreated, setupResult, crdFound, crdExists,
                    apiConfig, lock, controllerStopFunction, setUnderLock,
                    informer, pc, local, logged, sync, engine,
                    statusWrite, crdFilter,
                    httpCall, admission, offsetSync >>

\* resourceController.Start returns, with an error at any time or without
\* one after its context has been cancelled; the goroutine then clears the
\* cancel function.
RunLoopExit(c) ==
    /\ Active(c)
    /\ \E failed \in BOOLEAN :
         /\ ctrl[c] = "running" => failed
         /\ ctrl' = [ctrl EXCEPT ![c] = IF failed THEN "failed" ELSE "stopped"]
    /\ controllerStopFunction' = Nil
    /\ setUnderLock' = HoldsLock("goroutine")
    /\ UNCHANGED << authToken, crdInCluster, crdEvents, subscribed,
                    reconcilerCreated, setupResult, crdFound, crdExists,
                    apiConfig, lock, informer, pc, local, logged, sync, engine,
                    statusWrite, crdFilter,
                    httpCall, admission, offsetSync >>

\* ------------------------------------------ stopWatchingThirdPartyResources

\* The guard left out.
StopGuardNilSkipped(cancelFunc) == FALSE

\* "if cancelFunc == nil { ...; return }"
StopGuardNil(cancelFunc) == cancelFunc = Nil

\* ControllerStopFunctionLock().Lock(), cancelFunc :=
\* GetControllerStopFunction() and the nil check.
StopLock(t) ==
    /\ pc[t] = "stop_lock"
    /\ CanLock(t)
    /\ lock' = t
    /\ local' = [local EXCEPT ![t].cancelFunc = controllerStopFunction,
                              ![t].exit = IF StopGuardNil(controllerStopFunction)
                                            THEN "not_running" ELSE @]
    /\ IF StopGuardNil(controllerStopFunction)
         THEN /\ logged' = [logged EXCEPT ![t] = @ \cup {"already_stopped"}]
              /\ pc' = [pc EXCEPT ![t] = "stop_unlock"]
         ELSE /\ pc' = [pc EXCEPT ![t] = "stop_remove"]
              /\ UNCHANGED logged
    /\ UNCHANGED << authToken, crdInCluster, crdEvents, subscribed,
                    reconcilerCreated, setupResult, crdFound, crdExists,
                    apiConfig, controllerStopFunction, setUnderLock, ctrl,
                    informer, sync, engine,
                    statusWrite, crdFilter,
                    httpCall, admission, offsetSync >>

\* A stop that returns when the informer cannot be removed.
StopRemoveInformerAborting(t) ==
    /\ pc[t] = "stop_remove"
    /\ \E removeOk \in BOOLEAN :
         /\ informer' = IF removeOk THEN {} ELSE informer
         /\ logged' = [logged EXCEPT ![t] =
                         @ \cup (IF removeOk THEN {"removing_informer"}
                                 ELSE {"removing_informer", "remove_failed"})]
         /\ pc' = [pc EXCEPT ![t] = IF removeOk THEN "stop_cancel"
                                    ELSE "stop_unlock"]
    /\ UNCHANGED << authToken, crdInCluster, crdEvents, subscribed,
                    reconcilerCreated, setupResult, crdFound, crdExists,
                    apiConfig, lock, controllerStopFunction, setUnderLock, ctrl,
                    local, sync, engine,
                    statusWrite, crdFilter,
                    httpCall, admission, offsetSync >>

\* GetCache().RemoveInformer; a failure is logged and the stop goes on.
StopRemoveInformer(t) ==
    /\ pc[t] = "stop_remove"
    /\ \E removeOk \in BOOLEAN :
         /\ informer' = IF removeOk THEN {} ELSE informer
         /\ logged' = [logged EXCEPT ![t] =
                         @ \cup (IF removeOk THEN {"removing_informer"}
                                 ELSE {"removing_informer", "remove_failed"})]
    /\ pc' = [pc EXCEPT ![t] = "stop_cancel"]
    /\ UNCHANGED << authToken, crdInCluster, crdEvents, subscribed,
                    reconcilerCreated, setupResult, crdFound, crdExists,
                    apiConfig, lock, controllerStopFunction, setUnderLock, ctrl,
                    local, sync, engine,
                    statusWrite, crdFilter,
                    httpCall, admission, offsetSync >>

\* A cancellation that also ends the synchronization attempt in progress.
StopCancelAborting(t) ==
    /\ pc[t] = "stop_cancel"
    /\ ctrl' = [ctrl EXCEPT ![local[t].cancelFunc] =
                  IF @ = "running" THEN "cancelled" ELSE @]
    /\ logged' = [logged EXCEPT ![t] = @ \cup {"stopping"}]
    /\ pc' = [pc EXCEPT ![t] = "stop_clear"]
    /\ sync' = NoSync
    /\ engine' = NoEngine
    /\ UNCHANGED << authToken, crdInCluster, crdEvents, subscribed,
                    reconcilerCreated, setupResult, crdFound, crdExists,
                    apiConfig, lock, controllerStopFunction, setUnderLock, informer,
                    local, statusWrite, crdFilter,
                    httpCall, admission, offsetSync >>

\* (*cancelFunc)(): cancels the context of the sub-controller it was made for.
StopCancel(t) ==
    /\ pc[t] = "stop_cancel"
    /\ ctrl' = [ctrl EXCEPT ![local[t].cancelFunc] =
                  IF @ = "running" THEN "cancelled" ELSE @]
    /\ logged' = [logged EXCEPT ![t] = @ \cup {"stopping"}]
    /\ pc' = [pc EXCEPT ![t] = "stop_clear"]
    /\ UNCHANGED << authToken, crdInCluster, crdEvents, subscribed,
                    reconcilerCreated, setupResult, crdFound, crdExists,
                    apiConfig, lock, controllerStopFunction, setUnderLock, informer,
                    local, sync, engine,
                    statusWrite, crdFilter,
                    httpCall, admission, offsetSync >>

\* A stop call that leaves the cancel function in place.
StopClearSkipped(t) ==
    /\ pc[t] = "stop_clear"
    /\ local' = [local EXCEPT ![t].exit = "stopped"]
    /\ pc' = [pc EXCEPT ![t] = "stop_unlock"]
    /\ UNCHANGED << authToken, crdInCluster, crdEvents, subscribed,
                    reconcilerCreated, setupResult, crdFound, crdExists,
                    apiConfig, lock, controllerStopFunction, setUnderLock, ctrl,
                    informer, logged, sync, engine,
                    statusWrite, crdFilter,
                    httpCall, admission, offsetSync >>

\* SetControllerStopFunction(nil)
StopClear(t) ==
    /\ pc[t] = "stop_clear"
    /\ controllerStopFunction' = Nil
    /\ setUnderLock' = HoldsLock(t)
    /\ local' = [local EXCEPT ![t].exit = "stopped"]
    /\ pc' = [pc EXCEPT ![t] = "stop_unlock"]
    /\ UNCHANGED << authToken, crdInCluster, crdEvents, subscribed,
                    reconcilerCreated, setupResult, crdFound, crdExists,
                    apiConfig, lock, ctrl, informer, logged, sync, engine,
                    statusWrite, crdFilter,
                    httpCall, admission, offsetSync >>

\* The deferred Unlock() and the return of stopWatchingThirdPartyResources.
StopUnlock(t) ==
    /\ pc[t] = "stop_unlock"
    /\ lock' = "none"
    /\ pc' = [pc EXCEPT ![t] = AfterCall(t)]
    /\ local' = [local EXCEPT ![t] = NoLocals]
    /\ logged' = [logged EXCEPT ![t] = IF t = "setup" THEN @ ELSE {}]
    /\ UNCHANGED << authToken, crdInCluster, crdEvents, subscribed,
                    reconcilerCreated, setupResult, crdFound, crdExists,
                    apiConfig, controllerStopFunction, setUnderLock, ctrl,
                    informer, sync, engine,
                    statusWrite, crdFilter,
                    httpCall, admission, offsetSync >>

\* ------------------------------------------------ synchronization attempts

\* A classification that retries nothing.
IsRetryableNever(outcome) == FALSE

\* A classification that retries the 4xx statuses as well.
IsRetryableAlso4xx(outcome) == outcome # "2xx"

\* The classification of executeSingleHttpRequest: a transport error and
\* every status that is neither 2xx nor 4xx can be retried.
IsRetryable(outcome) == outcome \notin {"2xx", "4xx"}

\* The informer hands an instance event to the event handler of a
\* sub-controller, which runs the synchronization engine. The handler stays
\* on the informer until the informer is removed.
DispatchInstanceEvent(c) ==
    /\ c \in informer
    /\ sync.state = "idle"
    /\ sync' = [owner |-> c, state |-> "http", attempts |-> 0, last |-> "none"]
    /\ UNCHANGED << authToken, crdInCluster, crdEvents, subscribed,
                    reconcilerCreated, setupResult, crdFound, crdExists,
                    apiConfig, lock, controllerStopFunction, setUnderLock, ctrl,
                    informer, pc, local, logged,
                    engine,
                    statusWrite, crdFilter,
                    httpCall, admission, offsetSync >>

\* One attempt of executeSingleHttpRequestWithRetry.
HttpAttempt ==
    /\ sync.state = "http"
    /\ \E outcome \in HttpOutcomes :
         sync' = [sync EXCEPT
                    !.attempts = @ + 1,
                    !.last = outcome,
                    !.state = IF outcome = "2xx" THEN "succeeded"
                              ELSE IF IsRetryable(outcome)
                                      /\ sync.attempts + 1 < HttpRetrySteps
                                     THEN "http"
                                     ELSE "failed"]
    /\ UNCHANGED << authToken, crdInCluster, crdEvents, subscribed,
                    reconcilerCreated, setupResult, crdFound, crdExists,
                    apiConfig, lock, controllerStopFunction, setUnderLock, ctrl,
                    informer, pc, local, logged,
                    engine,
                    statusWrite, crdFilter,
                    httpCall, admission, offsetSync >>

\* The synchronization attempt returns.
SyncReturn ==
    /\ sync.state \in {"succeeded", "failed"}
    /\ sync' = NoSync
    /\ UNCHANGED << authToken, crdInCluster, crdEvents, subscribed,
                    reconcilerCreated, setupResult, crdFound, crdExists,
                    apiConfig, lock, controllerStopFunction, setUnderLock, ctrl,
                    informer, pc, local, logged,
                    engine,
                    statusWrite, crdFilter,
                    httpCall, admission, offsetSync >>

\* ------------------------------------------------------ synchronizeViaApi

\* A validation that leaves out the check of the auth token.
validatePreconditionsWithoutToken(monitoring, enabled, cfg, token) ==
    IF monitoring = "error"
      THEN [synchronizeResource |-> FALSE, failed |-> "lookup_error"]
    ELSE IF monitoring = "none"
      THEN [synchronizeResource |-> FALSE, failed |-> "no_monitoring_resource"]
    ELSE IF ~enabled
      THEN [synchronizeResource |-> FALSE, failed |-> "disabled"]
    ELSE IF ~isValidApiConfig(cfg)
      THEN [synchronizeResource |-> FALSE, failed |-> "no_api_endpoint"]
    ELSE [synchronizeResource |-> TRUE, failed |-> "none",
          authToken |-> token, apiEndpoint |-> cfg.Endpoint,
          dataset |-> IF cfg.Dataset = "" THEN DatasetDefault
                      ELSE cfg.Dataset]

\* A result that takes the dataset of the ApiConfig as it is.
validatePreconditionsKeepingDataset(monitoring, enabled, cfg, token) ==
    IF monitoring = "error"
      THEN [synchronizeResource |-> FALSE, failed |-> "lookup_error"]
    ELSE IF monitoring = "none"
      THEN [synchronizeResource |-> FALSE, failed |-> "no_monitoring_resource"]
    ELSE IF ~enabled
      THEN [synchronizeResource |-> FALSE, failed |-> "disabled"]
    ELSE IF ~isValidApiConfig(cfg)
      THEN [synchronizeResource |-> FALSE, failed |-> "no_api_endpoint"]
    ELSE IF token = ""
      THEN [synchronizeResource |-> FALSE, failed |-> "no_auth_token"]
    ELSE [synchronizeResource |-> TRUE, failed |-> "none",
          authToken |-> token, apiEndpoint |-> cfg.Endpoint,
          dataset |-> cfg.Dataset]

\* validatePreconditions: monitoring is the outcome of the lookup of the
\* monitoring resource in the namespace of the instance (an error, none, or
\* the resource), enabled is IsSynchronizationEnabled of that resource, cfg
\* the ApiConfig loaded from the store, token GetAuthToken() of the resource
\* reconciler. The first check that fails is logged, and the result then has
\* synchronizeResource false and nothing else.
validatePreconditions(monitoring, enabled, cfg, token) ==
    IF monitoring = "error"
      THEN [synchronizeResource |-> FALSE, failed |-> "lookup_error"]
    ELSE IF monitoring = "none"
      THEN [synchronizeResource |-> FALSE, failed |-> "no_monitoring_resource"]
    ELSE IF ~enabled
      THEN [synchronizeResource |-> FALSE, failed |-> "disabled"]
    ELSE IF ~isValidApiConfig(cfg)
      THEN [synchronizeResource |-> FALSE, failed |-> "no_api_endpoint"]
    ELSE IF token = ""
      THEN [synchronizeResource |-> FALSE, failed |-> "no_auth_token"]
    ELSE [synchronizeResource |-> TRUE, failed |-> "none",
          authToken |-> token, apiEndpoint |-> cfg.Endpoint,
          dataset |-> IF cfg.Dataset = "" THEN DatasetDefault
                      ELSE cfg.Dataset]

\* What MapResourceToHttpRequests can make of one item: a request, an entry
\* in the map of validation issues, or an entry in the map of
\* synchronization errors.
ItemKinds == {"request", "issue", "error"}

\* The results of MapResourceToHttpRequests for a resource of up to MaxItems
\* items: the kind of each item.
Mappings == UNION { [1..n -> ItemKinds] : n \in 0..MaxItems }

\* The items of a mapping result of one kind, in the order of the resource.
ItemsOfKind(m, kind) ==
    SelectSeq([i \in 1..Len(m) |-> i], LAMBDA i : m[i] = kind)

\* The keys of a map given as a set of pairs of item name and message.
Keys(map) == { p[1] : p \in map }

\* A copy that leaves nothing but the entries of src.
MapsCopyReplacing(dst, src) == IF src = {} THEN dst ELSE src

\* maps.Copy(dst, src): the entries of src, and the entries of dst under the
\* other keys.
MapsCopy(dst, src) == { p \in dst : p[1] \notin Keys(src) } \cup src

\* A classification that takes any success for a full success.
SynchronizationResultIgnoringIssues(succeeded, issues, errors) ==
    IF Len(succeeded) > 0 THEN "Successful" ELSE "Failed"

\* The result writeSynchronizationResult derives from the list of the items
\* synchronized successfully, the validation issues and the synchronization
\* errors.
SynchronizationResult(succeeded, issues, errors) ==
    IF Len(succeeded) > 0 /\ issues = {} /\ errors = {}
      THEN "Successful"
    ELSE IF Len(succeeded) > 0
      THEN "PartiallySuccessful"
    ELSE "Failed"

\* An endpoint and a dataset taken from the store when the requests are made.
RequestTargetFromStore(e) ==
    IF apiConfig = NilApiConfig
      THEN [apiEndpoint |-> "", dataset |-> DatasetDefault]
      ELSE [apiEndpoint |-> apiConfig.Endpoint,
            dataset |-> IF apiConfig.Dataset = "" THEN DatasetDefault
                        ELSE apiConfig.Dataset]

\* The endpoint and the dataset the requests of a call are made for: those of
\* the precondition result, which is what MapResourceToHttpRequests gets.
RequestTarget(e) ==
    [apiEndpoint |-> e.pre.apiEndpoint, dataset |-> e.pre.dataset]

\* "len(httpRequests) == 0 && len(validationIssues) == 0 &&
\* len(synchronizationErrors) == 0"
NothingToDo(e) ==
    /\ e.pending = << >>
    /\ e.validationIssues = {}
    /\ e.synchronizationErrors = {}

\* The event handler of sub-controller c gets an event of an instance and
\* calls upsertViaApi or deleteViaApi, which call synchronizeViaApi.
EngineReceive(c) ==
    /\ c \in informer
    /\ engine.state = "idle"
    /\ sync.state = "idle"
    /\ engine' = [NoEngine EXCEPT !.state = "validate", !.owner = c]
    /\ UNCHANGED << authToken, crdInCluster, crdEvents, subscribed,
                    reconcilerCreated, setupResult, crdFound, crdExists,
                    apiConfig, lock, controllerStopFunction, setUnderLock, ctrl,
                    informer, pc, local, logged, sync,
                    statusWrite, crdFilter,
                    httpCall, admission, offsetSync >>

\* validatePreconditions, and the return of synchronizeViaApi when the result
\* says not to synchronize.
EngineValidate ==
    /\ engine.state = "validate"
    /\ \E monitoring \in {"error", "none", "found"}, enabled \in BOOLEAN,
          token \in {"", "token"} :
         LET pre == validatePreconditions(monitoring, enabled, apiConfig, token)
         IN  engine' = [engine EXCEPT
                          !.monitoring = monitoring,
                          !.enabled = enabled,
                          !.authToken = token,
                          !.apiConfig = apiConfig,
                          !.pre = pre,
                          !.logged = IF pre.synchronizeResource THEN @
                                     ELSE @ \cup {pre.failed},
                          !.state = IF pre.synchronizeResource THEN "map"
                                    ELSE "return"]
    /\ UNCHANGED << authToken, crdInCluster, crdEvents, subscribed,
                    reconcilerCreated, setupResult, crdFound, crdExists,
                    apiConfig, lock, controllerStopFunction, setUnderLock, ctrl,
                    informer, pc, local, logged, sync,
                    statusWrite, crdFilter,
                    httpCall, admission, offsetSync >>

\* MapResourceToHttpRequests and the check for nothing to do, which logs that
\* the resource is skipped and goes on.
EngineMap ==
    /\ engine.state = "map"
    /\ \E m \in Mappings :
         LET mapped == [engine EXCEPT
                          !.itemsTotal = Len(m),
                          !.httpRequests = ItemsOfKind(m, "request"),
                          !.requestTarget = RequestTarget(engine),
                          !.pending = ItemsOfKind(m, "request"),
                          !.validationIssues =
                              { i \in 1..Len(m) : m[i] = "issue" },
                          !.synchronizationErrors =
                              { << i, "mapping" >> :
                                  i \in { j \in 1..Len(m) : m[j] = "error" } }]
         IN  engine' = [mapped EXCEPT
                          !.logged = IF NothingToDo(mapped)
                                       THEN @ \cup {"skipping"} ELSE @,
                          !.state = "execute"]
    /\ UNCHANGED << authToken, crdInCluster, crdEvents, subscribed,
                    reconcilerCreated, setupResult, crdFound, crdExists,
                    apiConfig, lock, controllerStopFunction, setUnderLock, ctrl,
                    informer, pc, local, logged, sync,
                    statusWrite, crdFilter,
                    httpCall, admission, offsetSync >>

\* executeAllHttpRequests: the next request of the list is handed to
\* executeSingleHttpRequestWithRetry.
EngineExecuteNext ==
    /\ engine.state = "execute"
    /\ engine.current = Nil
    /\ engine.pending # << >>
    /\ sync.state = "idle"
    /\ engine' = [engine EXCEPT !.current = Head(engine.pending),
                                !.pending = Tail(engine.pending)]
    /\ sync' = [owner |-> engine.owner, state |-> "http", attempts |-> 0,
                last |-> "none"]
    /\ UNCHANGED << authToken, crdInCluster, crdEvents, subscribed,
                    reconcilerCreated, setupResult, crdFound, crdExists,
                    apiConfig, lock, controllerStopFunction, setUnderLock, ctrl,
                    informer, pc, local, logged,
                    statusWrite, crdFilter,
                    httpCall, admission, offsetSync >>

\* A loop that counts a failed item among the successes as well.
EngineCollectBoth ==
    /\ engine.state = "execute"
    /\ engine.current # Nil
    /\ sync.state \in {"succeeded", "failed"}
    /\ engine' = [engine EXCEPT
                    !.current = Nil,
                    !.tries = @ \cup {<< engine.current, sync.attempts >>},
                    !.successfullySynchronized = Append(@, engine.current),
                    !.httpErrors =
                        IF sync.state = "failed"
                          THEN @ \cup {<< engine.current, sync.last >>} ELSE @]
    /\ sync' = NoSync
    /\ UNCHANGED << authToken, crdInCluster, crdEvents, subscribed,
                    reconcilerCreated, setupResult, crdFound, crdExists,
                    apiConfig, lock, controllerStopFunction, setUnderLock, ctrl,
                    informer, pc, local, logged,
                    statusWrite, crdFilter,
                    httpCall, admission, offsetSync >>

\* executeAllHttpRequests: executeSingleHttpRequestWithRetry has returned,
\* the item goes to the list of the items synchronized or, with the error of
\* its last attempt, to the map of the HTTP errors.
EngineCollect ==
    /\ engine.state = "execute"
    /\ engine.current # Nil
    /\ sync.state \in {"succeeded", "failed"}
    /\ engine' = [engine EXCEPT
                    !.current = Nil,
                    !.tries = @ \cup {<< engine.current, sync.attempts >>},
                    !.successfullySynchronized =
                        IF sync.state = "succeeded"
                          THEN Append(@, engine.current) ELSE @,
                    !.httpErrors =
                        IF sync.state = "failed"
                          THEN @ \cup {<< engine.current, sync.last >>} ELSE @]
    /\ sync' = NoSync
    /\ UNCHANGED << authToken, crdInCluster, crdEvents, subscribed,
                    reconcilerCreated, setupResult, crdFound, crdExists,
                    apiConfig, lock, controllerStopFunction, setUnderLock, ctrl,
                    informer, pc, local, logged,
                    statusWrite, crdFilter,
                    httpCall, admission, offsetSync >>

\* A loop that ends with the first request that fails.
EngineAggregateOnFirstError ==
    /\ engine.state = "execute"
    /\ engine.current = Nil
    /\ engine.pending = << >> \/ engine.httpErrors # {}
    /\ LET merged == MapsCopy(engine.synchronizationErrors, engine.httpErrors)
       IN  engine' = [engine EXCEPT
                        !.synchronizationErrors = merged,
                        !.logged = @ \cup {"outcome"},
                        !.result = SynchronizationResult(
                                       engine.successfullySynchronized,
                                       engine.validationIssues, merged),
                        !.state = "write"]
    /\ UNCHANGED << authToken, crdInCluster, crdEvents, subscribed,
                    reconcilerCreated, setupResult, crdFound, crdExists,
                    apiConfig, lock, controllerStopFunction, setUnderLock, ctrl,
                    informer, pc, local, logged, sync,
                    statusWrite, crdFilter,
                    httpCall, admission, offsetSync >>

\* The requests, if any, are done: the HTTP errors are copied into the map of
\* the synchronization errors, the outcome is logged and
\* writeSynchronizationResult is called, which derives the result.
EngineAggregate ==
    /\ engine.state = "execute"
    /\ engine.current = Nil
    /\ engine.pending = << >>
    /\ LET merged == MapsCopy(engine.synchronizationErrors, engine.httpErrors)
       IN  engine' = [engine EXCEPT
                        !.synchronizationErrors = merged,
                        !.logged = @ \cup {"outcome"},
                        !.result = SynchronizationResult(
                                       engine.successfullySynchronized,
                                       engine.validationIssues, merged),
                        !.state = "write"]
    /\ UNCHANGED << authToken, crdInCluster, crdEvents, subscribed,
                    reconcilerCreated, setupResult, crdFound, crdExists,
                    apiConfig, lock, controllerStopFunction, setUnderLock, ctrl,
                    informer, pc, local, logged, sync,
                    statusWrite, crdFilter,
                    httpCall, admission, offsetSync >>

\* One attempt of writeSynchronizationResult: the monitoring resource is
\* fetched again, the result is put into its status and the status is
\* updated; a failure of the fetch or of the update is retried until the
\* third attempt.
EngineWrite ==
    /\ engine.state = "write"
    /\ \E outcome \in {"get_failed", "update_failed", "ok"} :
         engine' = [engine EXCEPT
                      !.writeAttempts = @ + 1,
                      !.written = (outcome = "ok"),
                      !.logged = IF outcome # "ok"
                                    /\ engine.writeAttempts + 1 >= StatusWriteSteps
                                   THEN @ \cup {"write_failed"} ELSE @,
                      !.state = IF outcome = "ok"
                                   \/ engine.writeAttempts + 1 >= StatusWriteSteps
                                  THEN "return" ELSE "write"]
    /\ UNCHANGED << authToken, crdInCluster, crdEvents, subscribed,
                    reconcilerCreated, setupResult, crdFound, crdExists,
                    apiConfig, lock, controllerStopFunction, setUnderLock, ctrl,
                    informer, pc, local, logged, sync,
                    statusWrite, crdFilter,
                    httpCall, admission, offsetSync >>

\* synchronizeViaApi returns; it has no return value.
\* A return that clears the cancel function of the lifecycle.
EngineReturnClearingHandle ==
    /\ engine.state = "return"
    /\ engine' = NoEngine
    /\ controllerStopFunction' = Nil
    /\ UNCHANGED << authToken, crdInCluster, crdEvents, subscribed,
                    reconcilerCreated, setupResult, crdFound, crdExists,
                    apiConfig, lock, setUnderLock, ctrl,
                    informer, pc, local, logged, sync,
                    statusWrite, crdFilter,
                    httpCall, admission, offsetSync >>

EngineReturn ==
    /\ engine.state = "return"
    /\ engine' = NoEngine
    /\ UNCHANGED << authToken, crdInCluster, crdEvents, subscribed,
                    reconcilerCreated, setupResult, crdFound, crdExists,
                    apiConfig, lock, controllerStopFunction, setUnderLock, ctrl,
                    informer, pc, local, logged, sync,
                    statusWrite, crdFilter,
                    httpCall, admission, offsetSync >>

\* --------------------------------------------------------------------- Next

Next ==
    \/ SetupStart
    \/ SetupGetCrd
    \/ SetupRegister
    \/ ClusterCrdChange
    \/ CrdCreate
    \/ CrdDelete
    \/ SetApiEndpointAndDataset
    \/ RemoveApiEndpointAndDataset
    \/ \E t \in Threads : MaybeStartLock(t)
    \/ \E t \in Threads : MaybeStartCheckCrd(t)
    \/ \E t \in Threads : MaybeStartCheckCfg(t)
    \/ \E t \in Threads : MaybeStartCreate(t)
    \/ \E t \in Threads : MaybeStartUnlock(t)
    \/ \E c \in ControllerIds : RunLoopExit(c)
    \/ \E t \in Threads : StopLock(t)
    \/ \E t \in Threads : StopRemoveInformer(t)
    \/ \E t \in Threads : StopCancel(t)
    \/ \E t \in Threads : StopClear(t)
    \/ \E t \in Threads : StopUnlock(t)

\* The lifecycle of the sub-controller.
Spec == Init /\ [][Next]_vars

\* The lifecycle together with the synchronization attempts of the running
\* sub-controllers.
NextSync ==
    \/ Next
    \/ \E c \in ControllerIds : DispatchInstanceEvent(c)
    \/ HttpAttempt
    \/ SyncReturn

SpecSync == Init /\ [][NextSync]_vars

\* The first sub-controller has been started after the setup has returned: the
\* CRD is installed, the ApiConfig is valid, with or without a dataset, the
\* setup has found the CRD, and
\* the maybeStart call made after SetApiEndpointAndDataset has returned.
InitEngine ==
    /\ authToken = "token"
    /\ crdInCluster = TRUE
    /\ crdEvents = << >>
    /\ subscribed = TRUE
    /\ reconcilerCreated = TRUE
    /\ setupResult = "nil"
    /\ crdFound = "found"
    /\ crdExists = TRUE
    /\ apiConfig \in { [Endpoint |-> "https://api", Dataset |-> d] :
                         d \in {"", "ds"} }
    /\ lock = "none"
    /\ controllerStopFunction = 1
    /\ setUnderLock = TRUE
    /\ ctrl = [c \in ControllerIds |-> IF c = 1 THEN "running" ELSE "none"]
    /\ informer = {1}
    /\ pc = [t \in Threads |-> IF t = "setup" THEN "done" ELSE "idle"]
    /\ local = [t \in Threads |-> NoLocals]
    /\ logged = [t \in Threads |-> {}]
    /\ sync = NoSync
    /\ engine = NoEngine
    /\ statusWrite = NoStatusWrite
    /\ crdFilter = NoCrdFilter
    /\ httpCall = NoHttpCall
    /\ admission = NoAdmission
    /\ offsetSync = NoOffsetSync

\* The synchronization attempts of a running sub-controller, one after the
\* other, while the operator configuration changes the ApiConfig.
NextEngine ==
    \/ \E c \in ControllerIds : EngineReceive(c)
    \/ EngineValidate
    \/ EngineMap
    \/ EngineExecuteNext
    \/ HttpAttempt
    \/ EngineCollect
    \/ EngineAggregate
    \/ EngineWrite
    \/ EngineReturn
    \/ SetApiEndpointAndDataset
    \/ RemoveApiEndpointAndDataset
    \/ \E t \in Threads : MaybeStartLock(t)
    \/ \E t \in Threads : MaybeStartUnlock(t)

SpecEngine == InitEngine /\ [][NextEngine]_vars

\* ------------------------------------------ writeSynchronizationResult
\* Two synchronization attempts write their results to the status of the
\* same monitoring resource. Each is one call of writeSynchronizationResult,
\* whose retried function fetches the resource, merges the result of the
\* caller's instance into it and updates the status.

\* Status().Update fails with a conflict when the object it is given does not
\* carry the resource version the API server holds (variant: it never does).
UpdateConflictsNever(w) == FALSE

UpdateConflicts(w) ==
    statusWrite.writer[w].object.resourceVersion
        # statusWrite.resource.resourceVersion

\* UpdateSynchronizationResultsInStatus puts the result of the caller's
\* instance into the status of the object, next to the results of the others.
MergeResult(object, w) == [object EXCEPT !.results = @ \cup {w}]

\* Variant of the retry: the update is tried again with the object at hand.
AfterFailedAttemptResuming(wr) ==
    IF wr.attempts + 1 >= StatusWriteSteps
    THEN [wr EXCEPT !.attempts = @ + 1, !.pc = "done",
                    !.outcome = "exhausted"]
    ELSE [wr EXCEPT !.attempts = @ + 1, !.pc = "update"]

\* retry.OnError after the function has returned an error: every error is
\* retried, the function is called again from its first statement, and after
\* Steps calls the error is returned and logged.
AfterFailedAttempt(wr) ==
    IF wr.attempts + 1 >= StatusWriteSteps
    THEN [wr EXCEPT !.attempts = @ + 1, !.pc = "done",
                    !.outcome = "exhausted"]
    ELSE [wr EXCEPT !.attempts = @ + 1, !.pc = "fetch"]

StatusFrame ==
    UNCHANGED << authToken, crdInCluster, crdEvents, subscribed,
                 reconcilerCreated, setupResult, crdFound, crdExists,
                 apiConfig, lock, controllerStopFunction, setUnderLock, ctrl,
                 informer, pc, local, logged, sync, engine, crdFilter,
                    httpCall, admission, offsetSync >>

\* writeSynchronizationResult is called with the monitoring resource that
\* validatePreconditions has looked up.
StatusWriteBegin(w) ==
    /\ statusWrite.writer[w].pc = "idle"
    /\ statusWrite' =
           [statusWrite EXCEPT
               !.writer[w] = [@ EXCEPT !.pc = "fetch",
                                       !.object = statusWrite.resource]]
    /\ StatusFrame

\* The Get that re-fetches the monitoring resource.
StatusWriteFetch(w) ==
    /\ statusWrite.writer[w].pc = "fetch"
    /\ \E failed \in BOOLEAN :
           statusWrite' =
               [statusWrite EXCEPT
                   !.writer[w] =
                       IF failed
                       THEN AfterFailedAttempt(@)
                       ELSE [@ EXCEPT !.pc = "update",
                                      !.object = statusWrite.resource]]
    /\ StatusFrame

\* UpdateSynchronizationResultsInStatus and Status().Update.
StatusWriteUpdate(w) ==
    /\ statusWrite.writer[w].pc = "update"
    /\ \E failed \in BOOLEAN :
           LET wr     == statusWrite.writer[w]
               merged == MergeResult(wr.object, w)
               stored == [merged EXCEPT !.resourceVersion = @ + 1]
           IN  IF failed \/ UpdateConflicts(w)
               THEN statusWrite' =
                        [statusWrite EXCEPT
                            !.writer[w] =
                                AfterFailedAttempt(
                                    [wr EXCEPT
                                        !.object = merged,
                                        !.conflicted =
                                            @ \/ UpdateConflicts(w)])]
               ELSE statusWrite' =
                        [statusWrite EXCEPT
                            !.resource = stored,
                            !.writer[w] =
                                [wr EXCEPT !.attempts = @ + 1,
                                           !.pc = "done",
                                           !.outcome = "ok",
                                           !.object = stored]]
    /\ StatusFrame

NextStatus ==
    \/ \E w \in Writers : StatusWriteBegin(w)
    \/ \E w \in Writers : StatusWriteFetch(w)
    \/ \E w \in Writers : StatusWriteUpdate(w)

SpecStatus == InitEngine /\ [][NextStatus]_vars

\* The synchronization attempts of a running sub-controller while the CRD is
\* deleted and the sub-controller is stopped.
EngineStep ==
    \/ EngineValidate
    \/ EngineMap
    \/ EngineExecuteNext
    \/ HttpAttempt
    \/ EngineCollect
    \/ EngineAggregate
    \/ EngineWrite
    \/ EngineReturn

NextEngineStop ==
    \/ \E c \in ControllerIds : EngineReceive(c)
    \/ EngineStep
    \/ ClusterCrdChange
    \/ CrdDelete
    \/ \E t \in Threads : StopLock(t)
    \/ \E t \in Threads : StopRemoveInformer(t)
    \/ \E t \in Threads : StopCancel(t)
    \/ \E t \in Threads : StopClear(t)
    \/ \E t \in Threads : StopUnlock(t)
    \/ \E c \in ControllerIds : RunLoopExit(c)

\* The ApiConfig does not change while the sub-controller is stopped.
InitEngineStop == InitEngine /\ apiConfig.Dataset = "ds"

SpecEngineStop == InitEngineStop /\ [][NextEngineStop]_vars

\* ------------------------------------------------------ makeFilterPredicate
\* The groups and kinds of the CRDs in a cluster, the kinds of event of the
\* CRD watch, and the objects an event can carry: a CustomResourceDefinition
\* with its spec.group and spec.names.kind, or an object of another type.
CrdGroups == {"perses.dev", "monitoring.coreos.com"}

CrdKinds == {"PersesDashboard", "persesdashboard", "PrometheusRule"}

EventTypes == {"create", "update", "delete", "generic"}

EventObjects ==
    [isCrd : BOOLEAN, Group : CrdGroups, Kind : CrdKinds]

\* A comparison of the group alone.
isMatchingCrdByGroup(group, kind, crd) ==
    IF crd.isCrd THEN crd.Group = group ELSE FALSE

isMatchingCrd(group, kind, crd) ==
    IF crd.isCrd
    THEN crd.Group = group /\ crd.Kind = kind
    ELSE FALSE

\* The four functions of the predicate, selected by the type of the event.
makeFilterPredicate(group, kind, eventType, object) ==
    CASE eventType = "create"  -> isMatchingCrd(group, kind, object)
      [] eventType = "update"  -> FALSE
      [] eventType = "delete"  -> isMatchingCrd(group, kind, object)
      [] eventType = "generic" -> FALSE

\* The CRD watch is registered for one group and kind, and one event arrives.
InitFilter ==
    /\ authToken = "token"
    /\ crdInCluster = TRUE
    /\ crdEvents = << >>
    /\ subscribed = TRUE
    /\ reconcilerCreated = TRUE
    /\ setupResult = "nil"
    /\ crdFound = "found"
    /\ crdExists = TRUE
    /\ apiConfig = NilApiConfig
    /\ lock = "none"
    /\ controllerStopFunction = Nil
    /\ setUnderLock = TRUE
    /\ ctrl = [c \in ControllerIds |-> "none"]
    /\ informer = {}
    /\ pc = [t \in Threads |-> IF t = "setup" THEN "done" ELSE "idle"]
    /\ local = [t \in Threads |-> NoLocals]
    /\ logged = [t \in Threads |-> {}]
    /\ sync = NoSync
    /\ engine = NoEngine
    /\ statusWrite = NoStatusWrite
    /\ crdFilter \in [ asked : {FALSE}, passed : {FALSE},
                       group : CrdGroups, kind : CrdKinds,
                       eventType : EventTypes, object : EventObjects ]
    /\ httpCall = NoHttpCall
    /\ admission = NoAdmission
    /\ offsetSync = NoOffsetSync

\* The watch asks the predicate whether the event is handed to the reconciler.
ApplyFilter ==
    /\ ~crdFilter.asked
    /\ crdFilter' =
           [crdFilter EXCEPT
               !.asked = TRUE,
               !.passed = makeFilterPredicate(crdFilter.group, crdFilter.kind,
                                              crdFilter.eventType,
                                              crdFilter.object)]
    /\ UNCHANGED << authToken, crdInCluster, crdEvents, subscribed,
                    reconcilerCreated, setupResult, crdFound, crdExists,
                    apiConfig, lock, controllerStopFunction, setUnderLock, ctrl,
                    informer, pc, local, logged, sync, engine, statusWrite,
                    httpCall, admission, offsetSync >>

NextFilter == ApplyFilter

SpecFilter == InitFilter /\ [][NextFilter]_vars

\* The lifecycle after a successful setup, with no sub-controller started and
\* nothing in progress.
StartedQuiet ==
    /\ authToken = "token"
    /\ crdInCluster = TRUE
    /\ crdEvents = << >>
    /\ subscribed = TRUE
    /\ reconcilerCreated = TRUE
    /\ setupResult = "nil"
    /\ crdFound = "found"
    /\ crdExists = TRUE
    /\ apiConfig = NilApiConfig
    /\ lock = "none"
    /\ controllerStopFunction = Nil
    /\ setUnderLock = TRUE
    /\ ctrl = [c \in ControllerIds |-> "none"]
    /\ informer = {}
    /\ pc = [t \in Threads |-> IF t = "setup" THEN "done" ELSE "idle"]
    /\ local = [t \in Threads |-> NoLocals]
    /\ logged = [t \in Threads |-> {}]
    /\ sync = NoSync
    /\ engine = NoEngine
    /\ statusWrite = NoStatusWrite
    /\ crdFilter = NoCrdFilter

\* -------------------------------------------------- executeSingleHttpRequest
\* http.StatusOK, http.StatusMultipleChoices, http.StatusBadRequest and
\* http.StatusInternalServerError.
StatusOK == 200

StatusMultipleChoices == 300

StatusBadRequest == 400

StatusInternalServerError == 500

\* The status codes a response can carry.
StatusCodes == 100..599

\* What HttpClient().Do returns: an error, or a response with a status code.
HttpResponses ==
    { [transportError |-> TRUE, StatusCode |-> 0] }
        \cup { [transportError |-> FALSE, StatusCode |-> c] : c \in StatusCodes }

\* A classification that takes the 3xx statuses for a success.
executeSingleHttpRequestAllowing3xx(res) ==
    IF res.transportError
      THEN [isError |-> TRUE, retryable |-> TRUE]
    ELSE IF res.StatusCode < StatusOK \/ res.StatusCode >= StatusBadRequest
      THEN IF /\ res.StatusCode >= StatusBadRequest
              /\ res.StatusCode < StatusInternalServerError
             THEN [isError |-> TRUE, retryable |-> FALSE]
             ELSE [isError |-> TRUE, retryable |-> TRUE]
    ELSE [isError |-> FALSE, retryable |-> FALSE]

\* executeSingleHttpRequest: nil for a 2xx status, otherwise a retryableError
\* with its flag.
executeSingleHttpRequest(res) ==
    IF res.transportError
      THEN [isError |-> TRUE, retryable |-> TRUE]
    ELSE IF \/ res.StatusCode < StatusOK
            \/ res.StatusCode >= StatusMultipleChoices
      THEN IF /\ res.StatusCode >= StatusBadRequest
              /\ res.StatusCode < StatusInternalServerError
             THEN [isError |-> TRUE, retryable |-> FALSE]
             ELSE [isError |-> TRUE, retryable |-> TRUE]
    ELSE [isError |-> FALSE, retryable |-> FALSE]

\* One request is sent and gets one of the responses.
InitHttp ==
    /\ StartedQuiet
    /\ httpCall \in [ called : {FALSE}, response : HttpResponses,
                      result : {[isError |-> FALSE, retryable |-> FALSE]} ]
    /\ admission = NoAdmission
    /\ offsetSync = NoOffsetSync

ExecuteSingleHttpRequest ==
    /\ ~httpCall.called
    /\ httpCall' =
           [httpCall EXCEPT
               !.called = TRUE,
               !.result = executeSingleHttpRequest(httpCall.response)]
    /\ UNCHANGED << authToken, crdInCluster, crdEvents, subscribed,
                    reconcilerCreated, setupResult, crdFound, crdExists,
                    apiConfig, lock, controllerStopFunction, setUnderLock, ctrl,
                    informer, pc, local, logged, sync, engine, statusWrite,
                    crdFilter, admission, offsetSync >>

NextHttp == ExecuteSingleHttpRequest

SpecHttp == InitHttp /\ [][NextHttp]_vars

\* ------------------------------------------------------- the admission webhook
\* The routing table: group, kind, version and the handler of the resource.
routes ==
    { << "batch", "CronJob", "v1", "handleCronJob" >>,
      << "batch", "Job", "v1", "handleJob" >>,
      << "apps", "DaemonSet", "v1", "handleDaemonSet" >>,
      << "apps", "Deployment", "v1", "handleDeployment" >>,
      << "apps", "ReplicaSet", "v1", "handleReplicaSet" >>,
      << "apps", "StatefulSet", "v1", "handleStatefulSet" >> }

\* The groups, kinds and versions of the admission requests.
RequestGroups == {"batch", "apps", "", "networking.k8s.io"}

RequestKinds ==
    {"CronJob", "Job", "DaemonSet", "Deployment", "ReplicaSet", "StatefulSet",
     "Pod", "Ingress"}

RequestVersions == {"v1", "v1beta1", "v2"}

\* routing.routeFor: the handler of the table, fallbackRoute when the group
\* and the kind have an entry and the version has none, and nil when the group
\* has no entry or the kind has none in its group.
routeFor(group, kind, version) ==
    IF \A r \in routes : r[1] # group
      THEN "nil"
    ELSE IF \A r \in routes : ~(r[1] = group /\ r[2] = kind)
      THEN "nil"
    ELSE IF \A r \in routes :
                ~(r[1] = group /\ r[2] = kind /\ r[3] = version)
      THEN "fallbackRoute"
    ELSE (CHOOSE r \in routes :
              r[1] = group /\ r[2] = kind /\ r[3] = version)[4]

\* What the call of a route gives: fallbackRoute allows the request, a
\* handler of a resource allows it, patches it or answers with an error, and
\* the call of a nil function value panics.
ResponsesOf(route) ==
    CASE route = "nil"           -> {"panic"}
      [] route = "fallbackRoute" -> {"allowed"}
      [] OTHER                   -> {"allowed", "patched", "errored"}

\* The webhook gets one admission request.
InitWebhook ==
    /\ StartedQuiet
    /\ httpCall = NoHttpCall
    /\ admission \in [ handled : {FALSE}, group : RequestGroups,
                       kind : RequestKinds, version : RequestVersions,
                       route : {"none"}, response : {"none"} ]
    /\ offsetSync = NoOffsetSync

\* Handler.Handle
Handle ==
    /\ ~admission.handled
    /\ LET route == routeFor(admission.group, admission.kind,
                             admission.version)
       IN  \E response \in ResponsesOf(route) :
               admission' = [admission EXCEPT !.handled = TRUE,
                                              !.route = route,
                                              !.response = response]
    /\ UNCHANGED << authToken, crdInCluster, crdEvents, subscribed,
                    reconcilerCreated, setupResult, crdFound, crdExists,
                    apiConfig, lock, controllerStopFunction, setUnderLock, ctrl,
                    informer, pc, local, logged, sync, engine, statusWrite,
                    crdFilter, httpCall, offsetSync >>

NextWebhook == Handle

SpecWebhook == InitWebhook /\ [][NextWebhook]_vars

\* ------------------------------------------- the filelog offset synchronizer
\* What the offset directory can hold: no regular file, or one of two sets of
\* offset files.
DirContents == {"none", "f1", "f2"}

\* tarFolder: the number of the regular files archived and the bytes of the
\* archive, which is not empty even without a file.
tarFolder(dir) ==
    [ tarredFiles |-> IF dir = "none" THEN 0 ELSE 1,
      bytes |-> IF dir = "none" THEN "gz" ELSE dir ]

\* base64.StdEncoding.EncodeToString
EncodeToString(bytes) ==
    CASE bytes = "gz" -> "Z3o="
      [] bytes = "f1" -> "ZjE="
      [] bytes = "f2" -> "ZjI="

\* A synchronization that takes the value for stored before it is patched.
doSynchOffsetsStoringFirst(dir, current, tarOk, patchOk) ==
    LET tar      == tarFolder(dir)
        newValue == EncodeToString(tar.bytes)
    IN  IF ~tarOk
          THEN [outcome |-> "tar_error", patch |-> "", currentValue |-> current]
        ELSE IF tar.tarredFiles = 0
          THEN [outcome |-> "no_files", patch |-> "", currentValue |-> current]
        ELSE IF newValue = current
          THEN [outcome |-> "unchanged", patch |-> "",
                currentValue |-> current]
        ELSE IF ~patchOk
          THEN [outcome |-> "patch_failed", patch |-> newValue,
                currentValue |-> newValue]
        ELSE [outcome |-> "patched", patch |-> newValue,
              currentValue |-> newValue]

\* doSynchOffsets: how the call ends, the value it has sent in a patch of the
\* config map, if any, and currentValue after it.
doSynchOffsets(dir, current, tarOk, patchOk) ==
    LET tar      == tarFolder(dir)
        newValue == EncodeToString(tar.bytes)
    IN  IF ~tarOk
          THEN [outcome |-> "tar_error", patch |-> "", currentValue |-> current]
        ELSE IF tar.tarredFiles = 0
          THEN [outcome |-> "no_files", patch |-> "", currentValue |-> current]
        ELSE IF newValue = current
          THEN [outcome |-> "unchanged", patch |-> "",
                currentValue |-> current]
        ELSE IF ~patchOk
          THEN [outcome |-> "patch_failed", patch |-> newValue,
                currentValue |-> current]
        ELSE [outcome |-> "patched", patch |-> newValue,
              currentValue |-> newValue]

\* synchOffsets has started its ticker: currentValue is the empty string, and
\* the entry of the node in the config map is what an earlier run has left.
InitOffsets ==
    /\ StartedQuiet
    /\ httpCall = NoHttpCall
    /\ admission = NoAdmission
    /\ \E dir \in DirContents, stored \in {"", "ZjE="} :
           offsetSync = [ running |-> TRUE, tick |-> 0, directory |-> dir,
                          currentValue |-> "", configMap |-> stored,
                          last |-> [outcome |-> "none", patch |-> "",
                                    currentValue |-> ""] ]

OffsetsFrame ==
    UNCHANGED << authToken, crdInCluster, crdEvents, subscribed,
                 reconcilerCreated, setupResult, crdFound, crdExists,
                 apiConfig, lock, controllerStopFunction, setUnderLock, ctrl,
                 informer, pc, local, logged, sync, engine, statusWrite,
                 crdFilter, httpCall, admission >>

\* The collector writes its offset files.
OffsetFilesChange ==
    /\ offsetSync.running
    /\ \E dir \in DirContents \ {offsetSync.directory} :
           offsetSync' = [offsetSync EXCEPT !.directory = dir]
    /\ OffsetsFrame

\* One call of doSynchOffsets, after a tick or after the shutdown signal,
\* which is the last one.
SynchOffsetsCall(shutdown) ==
    /\ offsetSync.running
    /\ \E tarOk \in BOOLEAN, patchOk \in BOOLEAN :
           LET res == doSynchOffsets(offsetSync.directory,
                                     offsetSync.currentValue, tarOk, patchOk)
           IN  offsetSync' =
                   [offsetSync EXCEPT
                       !.running = ~shutdown,
                       !.tick = 1 - @,
                       !.currentValue = res.currentValue,
                       !.configMap = IF res.outcome = "patched"
                                       THEN res.patch ELSE @,
                       !.last = res]
    /\ OffsetsFrame

NextOffsets ==
    \/ OffsetFilesChange
    \/ SynchOffsetsCall(FALSE)
    \/ SynchOffsetsCall(TRUE)

SpecOffsets == InitOffsets /\ [][NextOffsets]_vars

\* ------------------------------------------------------------------ claims

\* No sub-controller has been cancelled and none has returned.
NoneStoppedYet == \A c \in ControllerIds : ctrl[c] \in {"none", "running"}

C2_AtMostOneActive == Cardinality(ActiveControllers) <= 1

\* C3: the stored cancel function is non-nil if and only if a sub-controller
\* run loop is active.
C3_HandleIffActive ==
    (controllerStopFunction # Nil) <=> (ActiveControllers # {})

\* C4: every SetControllerStopFunction call is made by the holder of the
\* lifecycle lock.
C4_EverySetUnderLock == setUnderLock

\* What a call that returns at a guard must leave alone.
LifecycleUnchanged ==
    UNCHANGED << controllerStopFunction, setUnderLock, ctrl, informer,
                 crdExists, apiConfig, logged, sync >>

\* C5: a maybeStart call that finds IsWatching true goes straight to its
\* return: it creates no sub-controller, starts no goroutine, logs nothing and
\* leaves the cancel function, the CRD flag and the informer as they are.
C5_StartWhileWatchingIsNoOp ==
    [][ \A t \in Threads :
          /\ (pc[t] = "start_lock" /\ pc'[t] # "start_lock" /\ IsWatching)
                => /\ pc'[t] = "start_unlock"
                   /\ local'[t].exit = "watching"
                   /\ local'[t].started = Nil
                   /\ LifecycleUnchanged
          /\ (pc[t] = "start_unlock" /\ pc'[t] # "start_unlock"
                /\ local[t].exit = "watching")
                => /\ pc'[t] = AfterCall(t)
                   /\ ctrl' = ctrl
                   /\ controllerStopFunction' = controllerStopFunction
                   /\ crdExists' = crdExists
                   /\ informer' = informer ]_vars

\* A maybeStart call has returned at the already-watching guard.
C5_Witness ==
    \E t \in Threads :
        /\ pc[t] = "start_unlock"
        /\ local[t].exit = "watching"
        /\ IsWatching

\* C6: a stop call that finds the cancel function nil goes straight to its
\* return: the informer is not removed, no sub-controller is cancelled, the
\* lifecycle state stays as it is; and every stop call returns with the cancel
\* function nil, so that a second stop call in a row is this no-op.
C6_StopWhileStoppedIsNoOp ==
    /\ [][ \A t \in Threads :
             /\ (pc[t] = "stop_lock" /\ pc'[t] # "stop_lock"
                   /\ controllerStopFunction = Nil)
                   => /\ pc'[t] = "stop_unlock"
                      /\ local'[t].exit = "not_running"
                      /\ UNCHANGED << controllerStopFunction, setUnderLock,
                                      ctrl, informer, crdExists, apiConfig,
                                      sync >>
             /\ (pc[t] = "stop_unlock" /\ pc'[t] # "stop_unlock")
                   => /\ pc'[t] = AfterCall(t)
                      /\ UNCHANGED << controllerStopFunction, setUnderLock,
                                      ctrl, informer, crdExists, apiConfig,
                                      sync >> ]_vars
    /\ [](\A t \in Threads :
             pc[t] = "stop_unlock" => controllerStopFunction = Nil)

\* A stop call has returned at the nil check, after an earlier stop call has
\* cancelled a sub-controller.
C6_Witness ==
    /\ pc["crd"] = "stop_unlock"
    /\ local["crd"].exit = "not_running"
    /\ \E c \in ControllerIds : ctrl[c] \in {"cancelled", "stopped"}

\* C7: when the CRD lookup of the setup has found no CRD and the setup has
\* returned without error, the CRD watch is registered; a maybeStart call of
\* the CRD create handler finds the CRD flag true, and with a valid ApiConfig
\* loaded it starts a sub-controller unless the lifecycle is watching already
\* or the construction of the sub-controller fails.
C7_CrdAppearsAfterStartup ==
    /\ (crdFound = "notfound" /\ pc["setup"] = "done" /\ setupResult = "nil")
          => subscribed
    /\ InStart("crd") => crdExists
    /\ pc["crd"] = "start_unlock" =>
          /\ local["crd"].exit \in { "watching", "api_config", "started",
                                     "create_failed", "watch_failed" }
          /\ local["crd"].exit = "api_config"
                => ~isValidApiConfig(local["crd"].apiConfig)
          /\ local["crd"].exit = "started"
                => /\ local["crd"].started \in CreatedControllers
                   /\ isValidApiConfig(local["crd"].apiConfig)

\* The CRD was absent at startup and the create handler has started the first
\* sub-controller, which is running.
C7_Witness ==
    /\ crdFound = "notfound"
    /\ pc["crd"] = "start_unlock"
    /\ local["crd"].exit = "started"
    /\ CreatedControllers = {1}
    /\ ctrl[1] = "running"
    /\ controllerStopFunction = 1

\* C8, as stated: the CRD watch is registered only when the CRD lookup of the
\* setup has found the CRD.
C8_SubscribedOnlyIfCrdFound == subscribed => crdFound = "found"

\* C8, amended: when the CRD lookup of the setup finds no CRD, the setup does
\* not call maybeStart and no sub-controller exists before the CRD watch is
\* registered; the CRD watch is registered in both branches, whenever the
\* setup returns without error after the lookup.
C8_SubscribedInBothBranches ==
    /\ crdFound = "notfound" =>
          /\ pc["setup"] \in {"setup_register", "done"}
          /\ ~subscribed => CreatedControllers = {}
    /\ (pc["setup"] = "done" /\ setupResult = "nil"
          /\ crdFound \in {"found", "notfound"}) => subscribed
    /\ subscribed => crdFound \in {"found", "notfound"}

\* The setup has found no CRD, has started nothing and has registered the CRD
\* watch.
C8_Witness ==
    /\ crdFound = "notfound"
    /\ pc["setup"] = "done"
    /\ subscribed
    /\ CreatedControllers = {}

TornDownBy(t, c) ==
    /\ pc[t] \in {"stop_clear", "stop_unlock"}
    /\ local[t].cancelFunc = c

\* C10, as stated: when the watch of a sub-controller is torn down, no retry
\* sequence of a synchronization attempt of that sub-controller is in flight.
C10_RetryEndsBeforeTeardown ==
    \A t \in Threads :
        sync.state = "http" => ~TornDownBy(t, sync.owner)

\* C10, amended: the teardown neither waits for nor aborts a retry sequence in
\* flight: no step of a start or stop call changes the attempt, which ends
\* only with a 2xx, with a 4xx or with its third failed attempt; an instance
\* event is handed to the engine only for a sub-controller whose handler is on
\* the informer, the informer removed by a stop call stays empty until that
\* call has returned, and a handler gets on the informer only when its
\* sub-controller is started.
C10_RetrySurvivesTeardown ==
    /\ [][ /\ (pc' # pc \/ ctrl' # ctrl) => sync' = sync
           /\ (sync.state = "idle" /\ sync'.state # "idle")
                 => sync'.owner \in informer
           /\ \A c \in ControllerIds :
                 (c \in informer' /\ c \notin informer)
                    => ctrl[c] = "none" /\ ctrl'[c] = "running" ]_vars
    /\ [](/\ \A t \in Threads :
               (pc[t] \in {"stop_cancel", "stop_clear", "stop_unlock"}
                  /\ local[t].exit # "not_running"
                  /\ "remove_failed" \notin logged[t]) => informer = {}
          /\ sync.state = "http"
             => /\ sync.attempts < 3
                /\ sync.attempts > 0 => sync.last \in {"transport", "5xx"}
          /\ sync.state = "succeeded" => sync.last = "2xx"
          /\ sync.state = "failed"
             => \/ sync.last = "4xx"
                \/ sync.attempts = 3 /\ sync.last \in {"transport", "5xx"})

\* The watch has been torn down, its informer removed, while the retry
\* sequence of its sub-controller is in flight after two failed attempts.
C10_Witness ==
    /\ sync.state = "http"
    /\ sync.attempts = 2
    /\ TornDownBy("crd", sync.owner)
    /\ ctrl[sync.owner] = "cancelled"
    /\ informer = {}

\* The CRD flag is false and the CRD event handler has nothing in progress:
\* the delete event has been processed, or no CRD has been seen so far.
CrdGone == ~crdExists /\ pc["crd"] = "idle"

\* C11: when the stop call of the CRD delete handler returns, the CRD flag is
\* false and the cancel function is nil; from then on, as long as the flag is
\* false, no maybeStart call is past the CRD guard, every call that reaches
\* the guard returns there, no sub-controller is created, and once the CRD
\* watch is registered only a CRD create event sets the flag to true.
C11_DeleteStopsUntilCreate ==
    /\ [](/\ pc["crd"] = "stop_unlock"
                => ~crdExists /\ controllerStopFunction = Nil
          /\ CrdGone
                => /\ controllerStopFunction = Nil
                   /\ \A t \in Threads :
                        pc[t] \notin {"start_cfg", "start_create"})
    /\ [][ CrdGone =>
             /\ \A c \in ControllerIds : ctrl[c] = "none" => ctrl'[c] = "none"
             /\ controllerStopFunction' = Nil
             /\ \A t \in Threads :
                  (pc[t] = "start_crd" /\ pc'[t] # "start_crd")
                     => /\ pc'[t] = "start_unlock"
                        /\ local'[t].exit = "crd_missing"
             /\ (crdExists' /\ subscribed)
                   => /\ crdEvents # << >>
                      /\ Head(crdEvents) = "create"
                      /\ crdEvents' = Tail(crdEvents) ]_vars

\* The CRD delete event has been processed after a sub-controller had been
\* started, and a later maybeStart call, made with a valid ApiConfig, has
\* returned at the CRD guard.
C11_Witness ==
    /\ CrdGone
    /\ subscribed
    /\ \E c \in ControllerIds : ctrl[c] \in {"cancelled", "stopped"}
    /\ isValidApiConfig(apiConfig)
    /\ pc["cfg"] = "start_unlock"
    /\ local["cfg"].exit = "crd_missing"
    /\ controllerStopFunction = Nil

\* An ApiConfig that is there and has an endpoint.
ValidEndpoint(cfg) == cfg # NilApiConfig /\ cfg.Endpoint # ""

\* C12: a maybeStart call gets to the construction of a sub-controller only
\* with a loaded ApiConfig that is non-nil and has a non-empty endpoint; with
\* any other ApiConfig the call returns at the guard, for isStartup true and
\* false alike, leaving the cancel function, the sub-controllers, the
\* informer, the CRD flag and the ApiConfig as they are; isStartup decides
\* only whether the message about the missing endpoint is logged.
C12_NoStartWithInvalidApiConfig ==
    /\ [](\A t \in Threads :
            /\ pc[t] = "start_create" => ValidEndpoint(local[t].apiConfig)
            /\ (pc[t] = "start_unlock"
                  /\ local[t].exit \in {"started", "create_failed",
                                        "watch_failed"})
                  => ValidEndpoint(local[t].apiConfig)
            /\ (pc[t] = "start_unlock" /\ local[t].exit = "api_config")
                  => /\ ~ValidEndpoint(local[t].apiConfig)
                     /\ local[t].started = Nil
                     /\ "no_api_endpoint" \in logged[t] <=> ~local[t].isStartup)
    /\ [][ \A t \in Threads :
             (pc[t] = "start_cfg" /\ pc'[t] # "start_cfg"
                /\ ~ValidEndpoint(apiConfig))
                => /\ pc'[t] = "start_unlock"
                   /\ UNCHANGED << controllerStopFunction, setUnderLock, ctrl,
                                   informer, crdExists, apiConfig, lock >>
                   /\ logged'[t] = IF local[t].isStartup
                                     THEN logged[t]
                                     ELSE logged[t] \cup {"no_api_endpoint"}
         ]_vars

\* The maybeStart call of the setup has returned without a log line and
\* without a sub-controller, and a later call, with isStartup false, has
\* loaded an ApiConfig with an empty endpoint, has logged the missing endpoint
\* and has started nothing either.
C12_Witness ==
    /\ crdFound = "found"
    /\ pc["setup"] = "done"
    /\ logged["setup"] = {}
    /\ pc["cfg"] = "start_unlock"
    /\ local["cfg"].exit = "api_config"
    /\ ~local["cfg"].isStartup
    /\ local["cfg"].apiConfig # NilApiConfig
    /\ "no_api_endpoint" \in logged["cfg"]
    /\ CreatedControllers = {}

GuardsPass(t) ==
    /\ (pc[t] = "start_lock" /\ pc'[t] # "start_lock"
          /\ controllerStopFunction = Nil) => pc'[t] = "start_crd"
    /\ (pc[t] = "start_crd" /\ pc'[t] # "start_crd" /\ crdExists)
          => pc'[t] = "start_cfg"
    /\ (pc[t] = "start_cfg" /\ pc'[t] # "start_cfg" /\ ValidEndpoint(apiConfig))
          => pc'[t] = "start_create"

\* C14: when the run loop of a sub-controller returns, with an error or after
\* its context was cancelled, the cancel function is nil afterwards; a
\* maybeStart call that finds it nil, the CRD flag true and the ApiConfig valid
\* gets to the construction, which on success stores a new cancel function
\* and starts a new sub-controller.
C14_RunLoopExitClearsHandle ==
    [][ /\ \A c \in ControllerIds :
             (ctrl[c] \in {"running", "cancelled"}
                /\ ctrl'[c] \notin {"running", "cancelled"})
                => /\ controllerStopFunction' = Nil
                   /\ ctrl'[c] \in {"failed", "stopped"}
                   /\ ctrl[c] = "running" => ctrl'[c] = "failed"
        /\ \A t \in Threads :
             /\ GuardsPass(t)
             /\ (pc[t] = "start_create" /\ local'[t].exit = "started")
                   => /\ ctrl[local'[t].started] = "none"
                      /\ ctrl'[local'[t].started] = "running"
                      /\ controllerStopFunction' = local'[t].started ]_vars

\* The run loop of the first sub-controller has returned after a clean stop,
\* and a second sub-controller has been started and is watching.
C14_Witness ==
    /\ ctrl[1] = "stopped"
    /\ ctrl[2] = "running"
    /\ controllerStopFunction = 2
    /\ crdExists
    /\ isValidApiConfig(apiConfig)

\* C15: a stop call that finds a cancel function holds the lifecycle lock
\* from the read of the cancel function to its return, and performs in this
\* order the removal of the informer, the invocation of the cancel function
\* and the clearing of the cancel function, which is nil when the call
\* returns.
C15_StopOrder ==
    /\ [](\A t \in Threads :
            /\ pc[t] \in {"stop_remove", "stop_cancel", "stop_clear",
                          "stop_unlock"} => lock = t
            /\ pc[t] = "stop_remove"
                  => /\ local[t].cancelFunc # Nil
                     /\ logged[t] \cap {"removing_informer", "stopping"} = {}
                     /\ ctrl[local[t].cancelFunc] # "cancelled"
            /\ pc[t] = "stop_cancel"
                  => /\ "removing_informer" \in logged[t]
                     /\ "stopping" \notin logged[t]
                     /\ ctrl[local[t].cancelFunc] # "cancelled"
                     /\ "remove_failed" \notin logged[t] => informer = {}
            /\ pc[t] = "stop_clear"
                  => /\ "stopping" \in logged[t]
                     /\ ctrl[local[t].cancelFunc] # "running"
                     /\ controllerStopFunction \in {local[t].cancelFunc, Nil}
            /\ pc[t] = "stop_unlock"
                  => /\ controllerStopFunction = Nil
                     /\ local[t].exit = "stopped"
                           => /\ ctrl[local[t].cancelFunc] # "running"
                              /\ {"removing_informer", "stopping"}
                                    \subseteq logged[t])
    /\ [][ \A t \in Threads :
             /\ (pc[t] = "stop_remove" /\ pc'[t] # "stop_remove")
                   => pc'[t] = "stop_cancel"
             /\ (pc[t] = "stop_cancel" /\ pc'[t] # "stop_cancel")
                   => pc'[t] = "stop_clear"
             /\ (pc[t] = "stop_clear" /\ pc'[t] # "stop_clear")
                   => /\ pc'[t] = "stop_unlock"
                      /\ controllerStopFunction' = Nil
                      /\ setUnderLock' ]_vars

\* A stop call is about to return after it has removed the informer, has
\* cancelled the running sub-controller and has cleared the cancel function,
\* still holding the lock.
C15_Witness ==
    /\ pc["crd"] = "stop_unlock"
    /\ local["crd"].exit = "stopped"
    /\ ctrl[local["crd"].cancelFunc] = "cancelled"
    /\ informer = {}
    /\ controllerStopFunction = Nil
    /\ lock = "crd"

\* No task has a call in progress and no CRD event is pending: nothing in the
\* program is left to run until the cluster or the configuration changes.
Quiescent ==
    /\ \A t \in Threads : pc[t] \in {"idle", "done"}
    /\ crdEvents = << >>

FirstFailedCheck(e) ==
    IF e.monitoring # "found" THEN 1
    ELSE IF ~e.enabled THEN 2
    ELSE IF ~ValidEndpoint(e.apiConfig) THEN 3
    ELSE IF e.authToken = "" THEN 4
    ELSE 0

\* The lifecycle and the cluster are left alone.
EngineFrame ==
    UNCHANGED << crdExists, apiConfig, controllerStopFunction, ctrl, informer,
                 lock >>

\* C17: the result of validatePreconditions has synchronizeResource true if
\* and only if a monitoring resource was found, synchronization is enabled on
\* it, the ApiConfig is non-nil with a non-empty endpoint and the auth token
\* is non-empty; otherwise the check that is reported is the first one, in
\* this order, that fails, and synchronizeViaApi returns at once: no HTTP
\* request is made, no status write is attempted, nothing but that check is
\* logged, and nothing else is changed.
C17_PreconditionsInOrder ==
    /\ [](engine.state \notin {"idle", "validate"} =>
            /\ engine.pre.synchronizeResource <=> FirstFailedCheck(engine) = 0
            /\ FirstFailedCheck(engine) = 1
                  => engine.pre.failed =
                        IF engine.monitoring = "error" THEN "lookup_error"
                        ELSE "no_monitoring_resource"
            /\ FirstFailedCheck(engine) = 2 => engine.pre.failed = "disabled"
            /\ FirstFailedCheck(engine) = 3
                  => engine.pre.failed = "no_api_endpoint"
            /\ FirstFailedCheck(engine) = 4
                  => engine.pre.failed = "no_auth_token"
            /\ ~engine.pre.synchronizeResource
                  => /\ engine.state = "return"
                     /\ engine.tries = {}
                     /\ engine.current = Nil
                     /\ sync.state = "idle"
                     /\ engine.writeAttempts = 0
                     /\ ~engine.written
                     /\ engine.logged = {engine.pre.failed})
    /\ [][ /\ (engine.state = "validate" /\ engine' # engine)
                => /\ engine'.state = IF FirstFailedCheck(engine') = 0
                                        THEN "map" ELSE "return"
                   /\ sync' = sync
                   /\ EngineFrame
           /\ (engine.state = "return" /\ engine' # engine)
                => engine' = NoEngine /\ sync' = sync /\ EngineFrame
           /\ (sync.state # "http" /\ sync'.state = "http")
                => engine.pre.synchronizeResource
           /\ engine'.writeAttempts > engine.writeAttempts
                => engine.pre.synchronizeResource ]_vars

\* The first three preconditions hold, the auth token is empty, and
\* synchronizeViaApi is about to return without a request and without a
\* status write.
C17_Witness ==
    /\ engine.state = "return"
    /\ engine.monitoring = "found"
    /\ engine.enabled
    /\ ValidEndpoint(engine.apiConfig)
    /\ engine.authToken = ""
    /\ ~engine.pre.synchronizeResource
    /\ engine.pre.failed = "no_auth_token"
    /\ engine.writeAttempts = 0

\* C18: when MapResourceToHttpRequests returns no request, no validation
\* issue and no synchronization error, the instance is skipped: no HTTP
\* request is made and no status write is attempted for it.
C18_NothingToDoWritesNothing ==
    (/\ engine.pre.synchronizeResource
     /\ engine.state \in {"execute", "write", "return"}
     /\ "skipping" \in engine.logged)
        => /\ engine.tries = {}
           /\ engine.state # "write"
           /\ engine.writeAttempts = 0
           /\ ~engine.written

\* C19: a request is attempted again only after a transport error or a 5xx
\* status and only up to the third attempt; a request whose attempts all end
\* that way fails after exactly three attempts, a request whose first attempt
\* gets a 4xx status fails after exactly one; the failed item gets into the
\* HTTP errors with the error of its last attempt, not into the successes,
\* and from there into the synchronization errors handed on.
C19_RetryBoundary ==
    /\ [](/\ sync.state = "http"
                => /\ sync.attempts < 3
                   /\ sync.attempts > 0 => sync.last \in {"transport", "5xx"}
          /\ (sync.state = "failed" /\ sync.last \in {"transport", "5xx"})
                => sync.attempts = 3
          /\ \A p \in engine.httpErrors :
                /\ p[2] \in {"transport", "5xx"}
                      => << p[1], 3 >> \in engine.tries
                /\ \A i \in 1..Len(engine.successfullySynchronized) :
                      engine.successfullySynchronized[i] # p[1]
          /\ engine.state \in {"write", "return"}
                => engine.httpErrors \subseteq engine.synchronizationErrors)
    /\ [][ /\ (sync.state = "http" /\ sync' # sync)
                => /\ sync'.attempts = sync.attempts + 1
                   /\ sync'.last \in {"transport", "5xx"}
                         => sync'.state = IF sync.attempts = 2 THEN "failed"
                                          ELSE "http"
                   /\ sync'.last = "4xx" => sync'.state = "failed"
                   /\ (sync.attempts = 0 /\ sync'.last = "4xx")
                         => sync'.attempts = 1
           /\ (sync.state = "failed" /\ sync' # sync)
                => /\ sync' = NoSync
                   /\ engine'.httpErrors =
                         engine.httpErrors
                            \cup {<< engine.current, sync.last >>}
                   /\ << engine.current, sync.attempts >> \in engine'.tries
                   /\ engine'.successfullySynchronized =
                         engine.successfullySynchronized ]_vars

\* The first request has failed three times with a 5xx status, the second
\* once with a 4xx status, and both errors are among the synchronization
\* errors handed to writeSynchronizationResult.
C19_Witness ==
    /\ engine.state = "write"
    /\ engine.tries = {<< 1, 3 >>, << 2, 1 >>}
    /\ engine.httpErrors = {<< 1, "5xx" >>, << 2, "4xx" >>}
    /\ engine.synchronizationErrors = engine.httpErrors
    /\ engine.successfullySynchronized = << >>

\* C20: the result is Successful exactly when at least one item was
\* synchronized and there is neither a validation issue nor a synchronization
\* error, PartiallySuccessful exactly when at least one item was synchronized
\* and there is an issue or an error, and Failed exactly when no item was
\* synchronized, whatever else there is.
C20_ResultClassification ==
    engine.state \in {"write", "return"} /\ engine.pre.synchronizeResource
       => LET some == Len(engine.successfullySynchronized) > 0
              clean == /\ engine.validationIssues = {}
                       /\ engine.synchronizationErrors = {}
          IN  /\ engine.result \in {"Successful", "PartiallySuccessful",
                                    "Failed"}
              /\ engine.result = "Successful" <=> (some /\ clean)
              /\ engine.result = "PartiallySuccessful" <=> (some /\ ~clean)
              /\ engine.result = "Failed" <=> ~some

\* One item has been synchronized, another one has a synchronization error
\* from the mapping, and the result PartiallySuccessful has been written.
C20_Witness ==
    /\ engine.state = "return"
    /\ engine.successfullySynchronized = << 1 >>
    /\ engine.validationIssues = {}
    /\ engine.synchronizationErrors = {<< 2, "mapping" >>}
    /\ engine.result = "PartiallySuccessful"
    /\ engine.written

\* The items of a list.
Range(seq) == { seq[i] : i \in 1..Len(seq) }

C23_ItemsIndependent ==
    /\ [](/\ \A p, q \in engine.tries : p[1] = q[1] => p = q
          /\ Keys(engine.tries) =
                Range(engine.successfullySynchronized)
                   \cup Keys(engine.httpErrors)
          /\ Range(engine.successfullySynchronized)
                \cap Keys(engine.httpErrors) = {}
          /\ Len(engine.successfullySynchronized)
                = Cardinality(Range(engine.successfullySynchronized))
          /\ engine.state \in {"write", "return"}
                => Keys(engine.tries) = Range(engine.httpRequests))
    /\ [][ /\ (engine.current = Nil /\ engine'.current # Nil)
                => /\ engine'.current = Head(engine.pending)
                   /\ engine'.current \notin Keys(engine.tries)
                   /\ sync'.state = "http"
                   /\ sync'.attempts = 0
           /\ (engine.current # Nil /\ engine'.current = Nil)
                => /\ engine'.pending = engine.pending
                   /\ engine'.state = "execute"
                   /\ engine'.tries =
                         engine.tries
                            \cup {<< engine.current, sync.attempts >>}
           /\ (engine.state = "execute" /\ engine'.state # "execute")
                => /\ engine.pending = << >>
                   /\ engine.current = Nil
                   /\ Keys(engine.tries) = Range(engine.httpRequests) ]_vars

\* The first of two requests has failed for good at its first attempt, the
\* second one has been executed all the same and has succeeded at its third
\* attempt.
C23_Witness ==
    /\ engine.state = "write"
    /\ engine.httpRequests = << 1, 2 >>
    /\ engine.tries = {<< 1, 1 >>, << 2, 3 >>}
    /\ engine.httpErrors = {<< 1, "4xx" >>}
    /\ engine.successfullySynchronized = << 2 >>

\* C24: when two synchronization attempts write to the status of the same
\* monitoring resource at the same time and the API server refuses an update
\* made from an outdated object, the result of every attempt whose update has
\* succeeded is in the status from then on: once both have succeeded, the
\* status holds the results of both.
C24_BothResultsInStatus ==
    /\ \A w \in Writers :
           statusWrite.writer[w].outcome = "ok"
               => w \in statusWrite.resource.results
    /\ (\A w \in Writers : statusWrite.writer[w].outcome = "ok")
           => statusWrite.resource.results = Writers

\* Both attempts have written at the same time, one update has met a
\* conflict, and both have succeeded.
C24_Witness ==
    /\ \A w \in Writers : statusWrite.writer[w].outcome = "ok"
    /\ \E w \in Writers : statusWrite.writer[w].conflicted
    /\ statusWrite.resource.results = Writers
    /\ statusWrite.resource.resourceVersion = 2

\* One step of a status write, as seen from the caller w.
StatusWriteStep(w) ==
    LET wr   == statusWrite.writer[w]
        wr2  == statusWrite'.writer[w]
        failure ==
            /\ wr2.attempts = wr.attempts + 1
            /\ statusWrite'.resource = statusWrite.resource
            /\ IF wr2.attempts < StatusWriteSteps
               THEN wr2.pc = "fetch" /\ wr2.outcome = "none"
               ELSE wr2.pc = "done" /\ wr2.outcome = "exhausted"
        success ==
            /\ wr2.attempts = wr.attempts + 1
            /\ wr2.pc = "done" /\ wr2.outcome = "ok"
            /\ statusWrite'.resource.results
                   = statusWrite.resource.results \cup {w}
    IN  /\ wr.pc = "idle" => wr2.pc = "fetch" /\ wr2.attempts = 0
        /\ wr.pc = "fetch" =>
               \/ /\ wr2.pc = "update"
                  /\ wr2.attempts = wr.attempts
                  /\ wr2.object = statusWrite.resource
               \/ failure
        /\ wr.pc = "update" => success \/ failure
        /\ wr.pc # "done"

\* C25: the status write is the sequence re-fetch, merge, update, tried at
\* most three times. Every failure of the re-fetch or of the update makes the
\* next try start at the re-fetch; the first successful update ends the
\* write; after the third failure the write ends without the result in the
\* status, and no step of it touches the synchronization that has run.
C25_StatusWriteRetries ==
    [][ /\ \A w \in Writers :
               /\ statusWrite'.writer[w] # statusWrite.writer[w]
                      => StatusWriteStep(w)
               /\ statusWrite'.writer[w].attempts <= StatusWriteSteps
               /\ statusWrite'.writer[w].outcome = "exhausted"
                      => /\ statusWrite'.writer[w].attempts = StatusWriteSteps
                         /\ w \notin statusWrite'.resource.results
        /\ statusWrite' # statusWrite => UNCHANGED << sync, engine >>
      ]_vars

\* A write has failed twice and has then succeeded at its third try; another
\* has failed three times.
C25_Witness ==
    /\ statusWrite.writer["a"].outcome = "ok"
    /\ statusWrite.writer["a"].attempts = StatusWriteSteps
    /\ statusWrite.writer["b"].outcome = "exhausted"
    /\ statusWrite.resource.results = {"a"}

\* The sub-controller of the attempt in progress has been cancelled, or has
\* ended.
OwnerCancelled ==
    /\ engine.state # "idle"
    /\ ctrl[engine.owner] \in {"cancelled", "stopped", "failed"}

\* C27: stopping a sub-controller does not abort the synchronization attempt
\* that is executing. No step of the stop, and no end of the run loop,
\* changes the attempt or its HTTP request; and an attempt whose
\* sub-controller has been cancelled still has its next step to take, so its
\* remaining HTTP attempts and its status write are made.
C27_CancelDoesNotAbort ==
    [][ /\ (pc' # pc \/ ctrl' # ctrl \/ informer' # informer
                \/ controllerStopFunction' # controllerStopFunction)
            => UNCHANGED << engine, sync >>
        /\ OwnerCancelled => ENABLED EngineStep
        /\ (OwnerCancelled /\ engine' # engine /\ engine.state # "return")
            => /\ engine'.state # "idle"
               /\ engine'.owner = engine.owner
      ]_vars

\* The stop has invoked the cancel function and has not yet cleared the
\* handle, while the attempt of the cancelled sub-controller has sent its first
\* item and is retrying the second.
C27_Witness ==
    /\ pc["crd"] = "stop_clear"
    /\ OwnerCancelled
    /\ ctrl[engine.owner] = "cancelled"
    /\ engine.state = "execute"
    /\ engine.tries # {}
    /\ sync.state # "idle"
    /\ sync.attempts >= 1

\* C28: the filter of the CRD watch passes a create or a delete event exactly
\* when its object is a CustomResourceDefinition whose group and kind are
\* those of the watch, and it passes no update and no generic event.
C28_FilterPassesMatchingCreateDelete ==
    crdFilter.asked =>
        /\ crdFilter.eventType \in {"create", "delete"} =>
               (crdFilter.passed <=>
                    /\ crdFilter.object.isCrd
                    /\ crdFilter.object.Group = crdFilter.group
                    /\ crdFilter.object.Kind = crdFilter.kind)
        /\ crdFilter.eventType \in {"update", "generic"} => ~crdFilter.passed

\* The delete event of the matching CRD has passed the filter.
C28_Witness ==
    /\ crdFilter.asked
    /\ crdFilter.eventType = "delete"
    /\ crdFilter.object.isCrd
    /\ crdFilter.object.Kind = crdFilter.kind
    /\ crdFilter.object.Group = crdFilter.group
    /\ crdFilter.passed

\* The call in progress has passed its precondition check.
InFlight == engine.state \in {"map", "execute", "write"}

\* The endpoint and the dataset of the precondition result and of the
\* requests are those of the ApiConfig the precondition check has loaded.
SnapshotUsed ==
    InFlight =>
        /\ engine.pre.apiEndpoint = engine.apiConfig.Endpoint
        /\ engine.pre.dataset \in {engine.apiConfig.Dataset, DatasetDefault}
        /\ engine.state \in {"execute", "write"} =>
               /\ engine.requestTarget.apiEndpoint = engine.apiConfig.Endpoint
               /\ engine.requestTarget.dataset = engine.pre.dataset

\* C26: a synchronization attempt uses the ApiConfig it has loaded in its
\* precondition check. The endpoint and the dataset of its requests are those
\* of that snapshot; a SetApiEndpointAndDataset or RemoveApiEndpointAndDataset
\* made while the attempt maps or sends leaves them as they are; and the
\* precondition check of the next attempt loads the ApiConfig of that moment.
C26_SnapshotPerAttempt ==
    [][ /\ SnapshotUsed'
        /\ apiConfig' # apiConfig => engine' = engine
        /\ (InFlight /\ engine'.state # "idle") =>
               /\ engine'.apiConfig = engine.apiConfig
               /\ engine'.pre = engine.pre
               /\ engine.state \in {"execute", "write"} =>
                      engine'.requestTarget = engine.requestTarget
        /\ (engine.state = "validate" /\ engine' # engine) =>
               engine'.apiConfig = apiConfig
      ]_vars

\* The ApiConfig has been removed while the attempt was sending its
\* requests, which are still those for the endpoint of the snapshot.
C26_Witness ==
    /\ engine.state = "execute"
    /\ sync.state # "idle"
    /\ apiConfig = NilApiConfig
    /\ engine.apiConfig.Endpoint = "https://api"
    /\ engine.requestTarget.apiEndpoint = "https://api"

C30_DatasetDefaulted ==
    engine.pre.synchronizeResource =>
        /\ engine.apiConfig.Dataset # "" =>
               engine.pre.dataset = engine.apiConfig.Dataset
        /\ engine.apiConfig.Dataset = "" =>
               engine.pre.dataset = DatasetDefault
        /\ engine.pre.dataset # ""
        /\ engine.pre.apiEndpoint = engine.apiConfig.Endpoint

\* The preconditions hold with an ApiConfig that has no dataset.
C30_Witness ==
    /\ engine.state = "map"
    /\ engine.pre.synchronizeResource
    /\ engine.apiConfig = [Endpoint |-> "https://api", Dataset |-> ""]
    /\ engine.pre.dataset = "default"
    /\ engine.pre.apiEndpoint = "https://api"

\* The run loop of sub-controller c returns in this step.
RunLoopExits(c) == Active(c) /\ ~Active(c)'

\* C31: the exit of a run loop clears only its own handle. When the run loop
\* of a cancelled sub-controller returns while the cancel function stored is
\* that of a sub-controller started after it, the cancel function stays in
\* place, and the lifecycle is still watching.
C31_ExitClearsOnlyOwnHandle ==
    [][ \A c \in ControllerIds :
            (RunLoopExits(c) /\ controllerStopFunction # Nil
                 /\ controllerStopFunction # c)
                => /\ controllerStopFunction' = controllerStopFunction
                   /\ IsWatching'
      ]_vars

\* Every request that has been sent has taken one, two or three attempts, and
\* its item is among the items synchronized or has an HTTP error, not both.
AttemptsCounted ==
    \A p \in engine.tries :
        /\ p[2] \in 1..3
        /\ p[1] \in Range(engine.successfullySynchronized)
               <=> p[1] \notin Keys(engine.httpErrors)

\* C32: a request takes between one and three HTTP attempts. The attempts end
\* with the first one that gets a 2xx status or an error that is not
\* retried; the item is reported as synchronized exactly when its last
\* attempt, the only one that can, has got a 2xx status, and otherwise the
\* error recorded for it is the error of its last attempt.
C32_AttemptsAndOutcome ==
    [][ /\ AttemptsCounted'
        /\ (sync.state = "http" /\ sync' # sync) =>
               /\ sync'.attempts = sync.attempts + 1
               /\ sync'.attempts \in 1..3
               /\ sync.attempts > 0 => sync.last \notin {"2xx", "4xx"}
               /\ sync'.last = "2xx" => sync'.state = "succeeded"
               /\ sync'.last = "4xx" => sync'.state = "failed"
               /\ sync'.last \in {"transport", "5xx"} =>
                      sync'.state = IF sync'.attempts = 3 THEN "failed"
                                    ELSE "http"
        /\ (sync.state \in {"succeeded", "failed"} /\ sync' # sync) =>
               /\ sync' = NoSync
               /\ engine'.tries
                      = engine.tries \cup {<< engine.current, sync.attempts >>}
               /\ sync.state = "succeeded" <=> sync.last = "2xx"
               /\ sync.last = "2xx" =>
                      /\ engine'.successfullySynchronized
                             = Append(engine.successfullySynchronized,
                                      engine.current)
                      /\ engine'.httpErrors = engine.httpErrors
               /\ sync.last # "2xx" =>
                      /\ engine'.successfullySynchronized
                             = engine.successfullySynchronized
                      /\ engine'.httpErrors
                             = engine.httpErrors
                                  \cup {<< engine.current, sync.last >>}
      ]_vars

\* The first request has got a 2xx status at its third attempt, the second
\* has got a 4xx status at its second attempt, after one that was retried.
C32_Witness ==
    /\ engine.tries = {<< 1, 3 >>, << 2, 2 >>}
    /\ engine.successfullySynchronized = << 1 >>
    /\ engine.httpErrors = {<< 2, "4xx" >>}

\* C33: every outcome of an HTTP request is in exactly one class. A status
\* from 200 to 299 is a success, without an error; a status from 400 to 499
\* is an error that is not retried; everything else, a transport failure and
\* the statuses 1xx, 3xx and 5xx, is an error that is retried.
C33_OutcomeClasses ==
    httpCall.called =>
        LET res == httpCall.response
            out == httpCall.result
            in(lo, hi) == ~res.transportError /\ res.StatusCode \in lo..hi
        IN  /\ in(200, 299) <=> ~out.isError
            /\ in(400, 499) <=> (out.isError /\ ~out.retryable)
            /\ (res.transportError \/ in(100, 199) \/ in(300, 399)
                    \/ in(500, 599))
                   <=> (out.isError /\ out.retryable)
            /\ ~out.isError => ~out.retryable

\* A response with the status 304 has been classified as a retryable error.
C33_Witness ==
    /\ httpCall.called
    /\ ~httpCall.response.transportError
    /\ httpCall.response.StatusCode = 304
    /\ httpCall.result = [isError |-> TRUE, retryable |-> TRUE]

\* The guards of maybeStartWatchingThirdPartyResources are passed in their
\* order by the call that holds the lock, and the call that starts a
\* sub-controller stores its cancel function while it still holds the lock.
GuardsInOrderUnderLock ==
    \A t \in Threads :
        /\ (pc[t] = "start_lock" /\ pc'[t] = "start_crd")
               => lock' = t /\ ~IsWatching
        /\ pc'[t] = "start_crd" => pc[t] \in {"start_lock", "start_crd"}
        /\ (pc[t] = "start_crd" /\ pc'[t] = "start_cfg")
               => lock = t /\ crdExists
        /\ pc'[t] = "start_cfg" => pc[t] \in {"start_crd", "start_cfg"}
        /\ (pc[t] = "start_cfg" /\ pc'[t] = "start_create")
               => lock = t /\ isValidApiConfig(apiConfig)
        /\ pc'[t] = "start_create" => pc[t] \in {"start_cfg", "start_create"}
        /\ \A c \in ControllerIds :
               (ctrl[c] = "none" /\ ctrl'[c] # "none" /\ pc[t] # pc'[t])
                   => /\ pc[t] = "start_create"
                      /\ lock = t /\ lock' = t
                      /\ ~IsWatching
                      /\ isValidApiConfig(local[t].apiConfig)
                      /\ controllerStopFunction' = c

\* A stop that acquires the lock while a sub-controller runs that has not
\* been cancelled finds the cancel function of that sub-controller.
StopFindsHandle ==
    \A t \in Threads :
        (pc[t] = "stop_lock" /\ pc'[t] # "stop_lock")
            => \A c \in ControllerIds :
                   ctrl[c] = "running" => local'[t].cancelFunc = c

\* C34: maybeStart starts a sub-controller only when, while it holds the
\* lock, the lifecycle is not watching, the CRD flag is true and the
\* ApiConfig is valid, checked in that order; it stores the cancel function
\* before it releases the lock, so that a stop that acquires the lock
\* afterwards finds the cancel function of the sub-controller started.
C34_StartGuardsAndHandle ==
    [][GuardsInOrderUnderLock /\ StopFindsHandle]_vars

\* The stop call of t has failed to remove the informer.
RemoveFailed(t) ==
    /\ pc[t] \in {"stop_cancel", "stop_clear", "stop_unlock"}
    /\ "remove_failed" \in logged[t]

\* C35: a stop whose removal of the informer fails goes on. It invokes the
\* cancel function it has read and clears the stored one, and when it
\* returns the lifecycle is not watching.
C35_StopSurvivesRemoveFailure ==
    /\ [](\A t \in Threads :
              RemoveFailed(t) =>
                  /\ lock = t
                  /\ local[t].cancelFunc # Nil
                  /\ pc[t] \in {"stop_clear", "stop_unlock"}
                         => ctrl[local[t].cancelFunc] # "running"
                  /\ pc[t] = "stop_unlock"
                         => /\ ~IsWatching
                            /\ local[t].exit = "stopped")
    /\ [][ \A t \in Threads :
               (RemoveFailed(t) /\ pc'[t] # pc[t]) =>
                   pc'[t] = CASE pc[t] = "stop_cancel" -> "stop_clear"
                              [] pc[t] = "stop_clear"  -> "stop_unlock"
                              [] pc[t] = "stop_unlock" -> "idle"
         ]_vars

\* A stop has failed to remove the informer, has cancelled the sub-controller
\* all the same and is about to return, with the informer still in the
\* cache.
C35_Witness ==
    /\ RemoveFailed("crd")
    /\ pc["crd"] = "stop_unlock"
    /\ informer # {}
    /\ ctrl[local["crd"].cancelFunc] = "cancelled"
    /\ ~IsWatching

\* The failures for which the setup returns an error: of the lookup of the
\* kube-system namespace, of the lookup of the CRD, of the building of the
\* controller that watches the CRDs.
SetupFailures == {"no_kube_system", "crd_lookup_failed", "build_failed"}

\* C36: SetupThirdPartyCrdReconcilerWithManager returns an error exactly when
\* the lookup of the kube-system namespace fails, the lookup of the CRD fails
\* with an error other than NotFound, or the controller of the CRD watch
\* cannot be built. A CRD that is not found and a failure inside maybeStart
\* do not make it return an error, and after an error of one of the two
\* lookups the CRD watch is not registered.
C36_SetupErrors ==
    /\ [](/\ pc["setup"] = "done" =>
                 /\ setupResult \in {"nil", "error"}
                 /\ setupResult = "error"
                        <=> logged["setup"] \cap SetupFailures # {}
                 /\ (crdFound = "notfound"
                        \/ logged["setup"] \cap {"create_failed",
                                                 "watch_failed"} # {})
                        => (setupResult = "error"
                                <=> "build_failed" \in logged["setup"])
                 /\ logged["setup"] \cap {"no_kube_system",
                                          "crd_lookup_failed"} # {}
                        => ~subscribed /\ crdEvents = << >>
          /\ pc["setup"] # "done" => setupResult = "pending")
    /\ [][ setupResult' # setupResult =>
               /\ pc["setup"] \in {"setup_start", "setup_getcrd",
                                   "setup_register"}
               /\ pc'["setup"] = "done"
         ]_vars

\* The lookup of the CRD has failed with an error other than NotFound: the
\* setup has returned the error and has not registered the CRD watch, and
\* the resource reconciler exists.
C36_Witness ==
    /\ pc["setup"] = "done"
    /\ setupResult = "error"
    /\ crdFound = "error"
    /\ "crd_lookup_failed" \in logged["setup"]
    /\ reconcilerCreated
    /\ ~subscribed

\* C37: without an auth token the setup returns nil and has done nothing
\* else: the resource reconciler is not created, the CRD is not looked up,
\* no sub-controller is started and the CRD watch is not registered; no CRD
\* event reaches the reconciler afterwards, so that no watch for the kind is
\* ever started by one.
C37_NoTokenNoWatch ==
    authToken = "" =>
        /\ pc["setup"] \in {"setup_start", "done"}
        /\ pc["setup"] = "done" =>
               /\ setupResult = "nil"
               /\ logged["setup"] = {"no_auth_token"}
        /\ ~reconcilerCreated
        /\ crdFound = "unknown"
        /\ ~crdExists
        /\ ~subscribed
        /\ crdEvents = << >>
        /\ pc["crd"] = "idle"
        /\ CreatedControllers = {}
        /\ informer = {}
        /\ ~IsWatching

\* The setup has returned without an auth token, and the CRD has since been
\* installed in the cluster.
C37_Witness ==
    /\ authToken = ""
    /\ pc["setup"] = "done"
    /\ setupResult = "nil"
    /\ crdInCluster
    /\ ~subscribed
    /\ crdEvents = << >>

\* The request is for a group, kind and version without an entry in the
\* routing table.
Unrouted ==
    \A r \in routes :
        ~(r[1] = admission.group /\ r[2] = admission.kind
              /\ r[3] = admission.version)

\* C38: the webhook allows every request whose group, kind and version have
\* no entry in the routing table, be it the group, the kind or only the
\* version that is unknown.
C38_UnroutedAllowed ==
    (admission.handled /\ Unrouted) => admission.response = "allowed"

\* The call of doSynchOffsets made in this step has sent a patch.
PatchSent == offsetSync'.last.outcome \in {"patch_failed", "patched"}

\* C39: doSynchOffsets patches the config map only when at least one file
\* has been archived and the encoded archive differs from currentValue, the
\* last value stored without error. currentValue changes only with a patch
\* that has succeeded; so after a failed patch the next call with the same
\* content patches again, and after a patch that has succeeded a call with
\* the same content sends none.
C39_PatchOnlyOnChange ==
    [][ offsetSync'.tick # offsetSync.tick =>
            LET dir      == offsetSync.directory
                newValue == EncodeToString(tarFolder(dir).bytes)
                tarError == offsetSync'.last.outcome = "tar_error"
            IN  /\ PatchSent =>
                       /\ dir # "none"
                       /\ newValue # offsetSync.currentValue
                       /\ offsetSync'.last.patch = newValue
                /\ offsetSync'.currentValue # offsetSync.currentValue =>
                       /\ offsetSync'.last.outcome = "patched"
                       /\ offsetSync'.currentValue = newValue
                /\ offsetSync'.configMap # offsetSync.configMap =>
                       /\ offsetSync'.last.outcome = "patched"
                       /\ offsetSync'.configMap = newValue
                /\ offsetSync'.currentValue # "" =>
                       offsetSync'.currentValue = offsetSync'.configMap
                /\ (offsetSync.last.outcome = "patch_failed"
                        /\ offsetSync.last.patch = newValue /\ ~tarError)
                       => PatchSent
                /\ (offsetSync.last.outcome = "patched"
                        /\ offsetSync.last.patch = newValue)
                       => ~PatchSent
      ]_vars

\* The archive of the second set of files has been stored, and the last
\* call, with the files as they were, has sent no patch.
C39_Witness ==
    /\ offsetSync.running
    /\ offsetSync.last.outcome = "unchanged"
    /\ offsetSync.currentValue = "ZjI="
    /\ offsetSync.configMap = "ZjI="
    /\ offsetSync.directory = "f2"
====
